---------------------------- MODULE Spec2Model ----------------------------
(***************************************************************************)
(* Key lifecycle of key-rotation-manager: KeyManager.getKey / newKey /     *)
(* validateKey on top of the file Store (saveKeyFile / getKeyFileData),    *)
(* the FileUtil accessor and the Base hook registry.                       *)
(*                                                                         *)
(* Time is an integer clock `now`, counted in seconds.  A JavaScript       *)
(* value is a record [ty, v] whose `ty` is the result of `typeof`; a date  *)
(* field additionally carries `date`, the result of isDate on the string.  *)
(***************************************************************************)
EXTENDS Integers, Sequences, FiniteSets, TLC

VARIABLES
  now,       \* the wall clock read by `new Date()`
  fs,        \* the file system: path -> file
  hooks,     \* Base.hooks: the names that have a registered handler
  file,      \* kOptions.file: the file-name template of this instance
  last,      \* history: the last call, its arguments and its outcome
  getKeyFn,  \* Store.getKeyFn: the custom load function, if one is set
  saveKeyFn, \* Store.saveKeyFn: the custom save function, if one is set
  calls,     \* the getKey calls in flight, each at one of its awaits
  instance,  \* index.ts `let instance`: the shared module, 0 while it is null
  heap       \* the modules that were constructed, in the order of construction

vars ==
  <<now, fs, hooks, file, last, getKeyFn, saveKeyFn, calls, instance, heap>>

-----------------------------------------------------------------------------
(* Bounds of the model *)

MaxTime == 2

(* the modules that are constructed at most *)
MaxInstances == 2

(* DEFAULT_CRYPTO_OPTIONS.keyLength *)
DefaultKeyLength == 32

-----------------------------------------------------------------------------
(* JavaScript values *)

Str(x) == [ty |-> "string", v |-> x]
Num(x) == [ty |-> "number", v |-> x]
Bool(x) == [ty |-> "boolean", v |-> x]
Undef(x) == [ty |-> "undefined", v |-> x]

(* the number x + 1/2, for x >= 0 *)
NumHalf(x) == [ty |-> "number", v |-> x, half |-> TRUE]
IsHalf(x) == "half" \in DOMAIN x

(* ToIntegerOrInfinity of a number that is not negative: its integer part *)
ToIntegerOrInfinity(x) == x.v

(* Date.prototype.toISOString: the string of the instant t *)
toISOString(t) == [ty |-> "string", date |-> TRUE, v |-> t]
(* a string that `new Date` cannot parse; 0 is the sentinel 'NON_EXPIRED' *)
Text(n) == [ty |-> "string", date |-> FALSE, v |-> n]
NON_EXPIRED == Text(0)
Garbage == Text(1)

(* String(x) of a string or a number: the decimal numeral of a number *)
String(x) == Str(x.v)

(* JavaScript null, for a record that is absent *)
Null == [null |-> TRUE]

-----------------------------------------------------------------------------
(* src/utils/string.util.ts *)

isDate(data) == data.date

OptionalString(data) == data.ty \in {"string", "undefined"}

(* a variant of isType for which a version has to be a string *)
isTypeStringVersion(data, type) ==
  IF type = "stringNumber" THEN data.ty = "string"
  ELSE IF type = "optionalString" THEN OptionalString(data)
  ELSE data.ty = type

isType(data, type) ==
  CASE type = "number" -> data.ty = "number"
    [] type = "string" -> data.ty = "string"
    [] type = "stringNumber" -> data.ty = "string" \/ data.ty = "number"
    [] type = "boolean" -> data.ty = "boolean"
    [] type = "undefined" -> data.ty = "undefined"
    [] type = "optionalString" -> OptionalString(data)

UnitSeconds(unit) ==
  CASE unit = "seconds" -> 1
    [] unit = "minutes" -> 60
    [] unit = "hours" -> 3600
    [] unit = "days" -> 86400

(* addDuration: setSeconds, setMinutes, setHours and setDate take the integer
   part of the field they are given *)
addDuration(date, duration, unit) ==
  date + ToIntegerOrInfinity(duration) * UnitSeconds(unit)

-----------------------------------------------------------------------------
(* KeyManager.validateKey *)

typeChecks ==
  << <<"from", "string">>, <<"to", "string">>, <<"key", "string">>,
     <<"hashed", "string">>, <<"rotate", "boolean">>, <<"type", "string">>,
     <<"version", "stringNumber">>, <<"hashedBytes", "number">>,
     <<"secret", "optionalString">> >>

Verdict(ok, message, errorOn, isExpired, isRenewable) ==
  [ok |-> ok, message |-> message, errorOn |-> errorOn,
   isExpired |-> isExpired, isRenewable |-> isRenewable]

(* a variant of validateKey that looks at `to` before it looks at `from` *)
validateKeyToFirst(k, t) ==
  LET bad == {i \in 1..Len(typeChecks) :
                ~isType(k[typeChecks[i][1]], typeChecks[i][2])}
      first == CHOOSE i \in bad : \A j \in bad : i <= j
  IN  IF bad # {}
        THEN Verdict(FALSE, <<typeChecks[first][1], "is not valid">>,
                     typeChecks[first][1], FALSE, FALSE)
      ELSE IF ~isDate(k.to) /\ k.to # NON_EXPIRED
        THEN Verdict(FALSE, <<"", "Expire date is not valid!">>, "to", FALSE, FALSE)
      ELSE IF isDate(k.to) /\ k.to.v < t
        THEN Verdict(FALSE, <<"", "Key is expired">>, "to", TRUE, k.rotate.v)
      ELSE IF ~isDate(k.from)
        THEN Verdict(FALSE, <<"", "From date is not valid!">>, "from", FALSE, FALSE)
      ELSE IF k.from.v > t
        THEN Verdict(FALSE, <<"", "Key is not started!">>, "undefined", FALSE, FALSE)
      ELSE IF k.hashedBytes.v < 0
        THEN Verdict(FALSE, <<"", "Invalid hashedBytes range">>, "hashedBytes",
                     FALSE, FALSE)
      ELSE Verdict(TRUE, <<"", "">>, "undefined", FALSE, FALSE)

(* a variant of validateKey for which a record expires at `to`, not after *)
validateKeyExpiredAtTo(k, t) ==
  LET bad == {i \in 1..Len(typeChecks) :
                ~isType(k[typeChecks[i][1]], typeChecks[i][2])}
      first == CHOOSE i \in bad : \A j \in bad : i <= j
  IN  IF bad # {}
        THEN Verdict(FALSE, <<typeChecks[first][1], "is not valid">>,
                     typeChecks[first][1], FALSE, FALSE)
      ELSE IF ~isDate(k.from)
        THEN Verdict(FALSE, <<"", "From date is not valid!">>, "from", FALSE, FALSE)
      ELSE IF k.from.v > t
        THEN Verdict(FALSE, <<"", "Key is not started!">>, "undefined", FALSE, FALSE)
      ELSE IF ~isDate(k.to) /\ k.to # NON_EXPIRED
        THEN Verdict(FALSE, <<"", "Expire date is not valid!">>, "to", FALSE, FALSE)
      ELSE IF isDate(k.to) /\ k.to.v <= t
        THEN Verdict(FALSE, <<"", "Key is expired">>, "to", TRUE, k.rotate.v)
      ELSE IF k.hashedBytes.v < 0
        THEN Verdict(FALSE, <<"", "Invalid hashedBytes range">>, "hashedBytes",
                     FALSE, FALSE)
      ELSE Verdict(TRUE, <<"", "">>, "undefined", FALSE, FALSE)

validateKey(k, t) ==
  LET bad == {i \in 1..Len(typeChecks) :
                ~isType(k[typeChecks[i][1]], typeChecks[i][2])}
      first == CHOOSE i \in bad : \A j \in bad : i <= j
  IN  IF bad # {}
        THEN Verdict(FALSE, <<typeChecks[first][1], "is not valid">>,
                     typeChecks[first][1], FALSE, FALSE)
      ELSE IF ~isDate(k.from)
        THEN Verdict(FALSE, <<"", "From date is not valid!">>, "from", FALSE, FALSE)
      ELSE IF k.from.v > t
        THEN Verdict(FALSE, <<"", "Key is not started!">>, "undefined", FALSE, FALSE)
      ELSE IF ~isDate(k.to) /\ k.to # NON_EXPIRED
        THEN Verdict(FALSE, <<"", "Expire date is not valid!">>, "to", FALSE, FALSE)
      ELSE IF isDate(k.to) /\ k.to.v < t
        THEN Verdict(FALSE, <<"", "Key is expired">>, "to", TRUE, k.rotate.v)
      ELSE IF k.hashedBytes.v < 0
        THEN Verdict(FALSE, <<"", "Invalid hashedBytes range">>, "hashedBytes",
                     FALSE, FALSE)
      ELSE Verdict(TRUE, <<"", "">>, "undefined", FALSE, FALSE)

-----------------------------------------------------------------------------
(* The file system and src/utils/file.util.ts *)

(* A file is absent, or holds a text: a text is either the JSON of an object
   (version -> record; the empty text reads as the empty object) or anything
   else ("bad": not JSON, or JSON of a non-object). *)
Absent == [kind |-> "absent", data |-> <<>>]
BadText == [kind |-> "bad", data |-> <<>>]
JsonText(m) == [kind |-> "map", data |-> m]
EmptyText == JsonText(<<>>)
NoFallback == [kind |-> "undefined", data |-> <<>>]

Thrown == [threw |-> TRUE]
Returned(x) == [threw |-> FALSE, value |-> x]

(* FileUtil.read(path, fallback?) *)
read(f, fallback) ==
  IF f.kind # "absent" THEN Returned(f)
  ELSE IF fallback # NoFallback THEN Returned(fallback)
  ELSE Thrown

(* FileUtil.write(path, data): the file now holds the text *)
write(files, path, text) == [files EXCEPT ![path] = text]

-----------------------------------------------------------------------------
(* src/core/store.core.ts *)

(* Store.toSavedData *)
toSavedData(text) ==
  IF text.kind = "bad" THEN Thrown ELSE Returned(text.data)

(* Store.getKeyFileData *)
getKeyFileData(files, filePath) ==
  LET existingData == read(files[filePath], NoFallback)
  IN  IF existingData.threw THEN Thrown ELSE toSavedData(existingData.value)

(* variants of Put: one drops the other entries, one rewrites them *)
PutAlone(m, k, d) == [x \in {k} |-> d]
PutAll(m, k, d) == [x \in (DOMAIN m) \cup {k} |-> d]

(* { ...saveData, [data.version]: data } *)
Put(m, k, d) == [x \in (DOMAIN m) \cup {k} |-> IF x = k THEN d ELSE m[x]]

(* Store.saveKeyFile: [threw, fs, path] *)
saveKeyFile(files, path, data, merge) ==
  LET savedData == getKeyFileData(files, path)
      saveData == IF merge THEN savedData.value ELSE <<>>
  IN  IF savedData.threw
        THEN [threw |-> TRUE, fs |-> files, path |-> path]
        ELSE [threw |-> FALSE,
              fs |-> write(files, path,
                           JsonText(Put(saveData, String(data.version).v, data))),
              path |-> path]

-----------------------------------------------------------------------------
(* src/utils/crypto.util.ts: what newKey uses.  A random word is one of
   RandomWords; a key and a secret are texts of one character. *)

RandomWords == {1}

(* CryptoService.encode / decode, base64.  The text of a word w is 2 * w;
   the parser also reads that text without its padding, 2 * w + 1, as w.
   The text 0 is the empty text. *)
encode(wordArray) == 2 * wordArray
decode(encoded) == encoded \div 2

(* the digest of the hasher, encoded: what the hasher was fed, which is the
   characters of the data, then those of the secret, then the salt *)
Digest(data, secret, salt) == data \o secret \o <<salt>>

(* CryptoService.hash(data, secret, salt): the text `salt:digest`, kept as
   the sequence of its parts between the colons.  A salt that is given (not
   0, the empty text) is decoded and kept as it was given; else the salt is
   the word rnd that the random generator gives, encoded *)
hash(data, secret, salt, rnd) ==
  LET saltWordArray == IF salt # 0 THEN decode(salt) ELSE rnd
      saltStr == IF salt # 0 THEN salt ELSE encode(rnd)
  IN  Str(<<saltStr, Digest(data.v, secret.v, saltWordArray)>>)

(* variants of verifyHash: one does not compare the digests *)
verifyHashSaltOnly(data, hashedData, secret) ==
  ~(Len(hashedData.v) < 2 \/ hashedData.v[1] = 0 \/ hashedData.v[2] = <<>>)

(* CryptoService.verifyHash(data, hashedData, secret) *)
verifyHash(data, hashedData, secret) ==
  LET parts == hashedData.v
  IN  IF Len(parts) < 2 \/ parts[1] = 0 \/ parts[2] = <<>>
        THEN FALSE
        ELSE Digest(data.v, secret.v, decode(parts[1])) = parts[2]

-----------------------------------------------------------------------------
(* KeyManager (the revision with hooks and verifyKey) *)

Types == {"api"}

(* what the configured versionGenerator may return: a number or a string *)
Versions == {Num(1), Str(2)}

(* falsy values of JavaScript: undefined, 0, '' and false *)
Truthy(x) ==
  CASE x.ty = "undefined" -> FALSE
    [] x.ty = "number" -> x.v # 0 \/ IsHalf(x)
    [] x.ty = "boolean" -> x.v
    [] OTHER -> TRUE

(* KeyManager.getFilename: `{{root}}/{{filename}}.{{ext}}` bound to the
   version; the template is ['k'] ("static") or ['v', '{{version}}'] *)
getFilename(template, type, version) ==
  IF template = "versioned" THEN <<"v", String(version).v>> ELSE <<"k", 0>>

Paths == {getFilename(t, Str("api"), v) : t \in {"static", "versioned"}, v \in Versions}

(* a custom function that is not set (undefined) *)
NoFn == [set |-> FALSE]

(* a custom save function, called: it keeps the record in a store of its own
   and returns a path of its own making, here one that tells what it was
   called with *)
CallSaveKeyFn(fn, filename, key, merge) ==
  <<fn.name, filename, String(key.version).v, merge>>

(* a variant of saveKeyToStore that does not look at saveKeyFn *)
saveKeyToFile(files, template, key, merge) ==
  saveKeyFile(files, getFilename(template, key.type, key.version), key, merge)

(* KeyManager.saveKeyToStore *)
saveKeyToStore(files, template, key, merge) ==
  IF saveKeyFn.set
    THEN [threw |-> FALSE, fs |-> files,
          path |-> CallSaveKeyFn(saveKeyFn,
                                 getFilename(template, key.type, key.version),
                                 key, merge)]
    ELSE saveKeyFile(files, getFilename(template, key.type, key.version),
                     key, merge)

(* KeyManager.newKey: [threw, key, path, fs]; rnd holds the random words that
   generateKey, generateSalt and hash draw and the version the generator gives *)
newKey(files, template, t, options, rnd) ==
  LET key == Str(<<rnd.key>>)
      kLength == IF options.keyLength.ty = "undefined"
                   THEN DefaultKeyLength ELSE options.keyLength.v
      secret == Str(<<rnd.secret>>)
      hashedKey == hash(key, secret, 0, rnd.salt)
      keyGenerated ==
        [from |-> toISOString(t),
         to |-> IF Truthy(options.duration) /\ Truthy(options.unit)
                  THEN toISOString(addDuration(t, options.duration, options.unit.v))
                  ELSE NON_EXPIRED,
         key |-> key,
         secret |-> secret,
         hashed |-> hashedKey,
         hashedBytes |-> Num(kLength),
         type |-> options.type,
         version |-> rnd.version,
         rotate |-> Bool(Truthy(options.rotate))]
      saved == saveKeyToStore(files, template, keyGenerated, Truthy(options.merge))
  IN  [threw |-> saved.threw, key |-> keyGenerated, path |-> saved.path,
       fs |-> saved.fs]

(* Base.runHook: the handlers that run for `name` *)
runHook(registered, name) ==
  IF name \notin registered
    THEN IF "onHookNotFound" \in registered THEN <<"onHookNotFound">> ELSE <<>>
    ELSE <<name>>

(* a custom load function, called: it answers from a table of its own,
   version -> record, with null for a version it does not know *)
CallGetKeyFn(fn, path, version) ==
  IF version.v \in DOMAIN fn.table THEN fn.table[version.v] ELSE Null

(* a variant of getKeyByStore that does not look at getKeyFn *)
getKeyByFile(files, path, version) ==
  LET savedData == getKeyFileData(files, path)
  IN  IF savedData.threw THEN Thrown
      ELSE Returned(IF version.v \in DOMAIN savedData.value
                      THEN savedData.value[version.v] ELSE Null)

(* KeyManager.getKeyByStore *)
getKeyByStore(files, path, version) ==
  LET savedData == getKeyFileData(files, path)
  IN  IF getKeyFn.set THEN Returned(CallGetKeyFn(getKeyFn, path, version))
      ELSE IF savedData.threw THEN Thrown
      ELSE Returned(IF version.v \in DOMAIN savedData.value
                      THEN savedData.value[version.v] ELSE Null)

NoVerdict == Verdict(FALSE, <<"", "">>, "undefined", FALSE, FALSE)

(* how a call of getKey ends: it threw or returned {ready, expired}; `hook`
   is the name runKeyHook was called with ("none": no call), `args` what it
   was called with and `ran` the handlers that ran; `fs` is the files when the
   call ends and `saved` the save that the call made *)
Ended(threw, ready, expired, hook, args, ran, files, saved) ==
  [threw |-> threw,
   ready |-> IF threw THEN Null ELSE ready,
   expired |-> IF threw THEN Null ELSE expired,
   hook |-> hook, args |-> args, ran |-> ran, fs |-> files, saved |-> saved]

(* the runKeyHook call that ends a branch of getKey, unless hooks are
   disabled: a handler that throws makes getKey throw *)
Notified(options, registered, handler, name, args, ready, expired, files, saved) ==
  IF options.disableHooks
    THEN Ended(FALSE, ready, expired, "none", <<>>, <<>>, files, saved)
    ELSE Ended(runHook(registered, name) # <<>> /\ handler = "throw",
               ready, expired, name, args, runHook(registered, name),
               files, saved)

(* KeyManager.getKey.  env holds what the call's collaborators do: whether
   a handler that runs throws, and the random words and the version of the
   key a rotation generates. *)
getKey(files, registered, template, t, options, env) ==
  LET path == options.path
      version == options.version
      loaded == getKeyByStore(files, path, String(version))
      key == loaded.value
      v == validateKey(key, t)
      renew == newKey(files, template, t,
                      [type |-> key.type, duration |-> options.onRotate.duration,
                       unit |-> options.onRotate.unit,
                       rotate |-> options.onRotate.rotate,
                       merge |-> options.onRotate.merge,
                       keyLength |-> options.onRotate.keyLength],
                      env.rnd)
  IN  IF loaded.threw
        THEN Ended(TRUE, Null, Null, "none", <<>>, <<>>, files, <<>>)
      ELSE IF key = Null
        THEN Notified(options, registered, env.handler, "onKeyNotFound",
                      <<path, version>>, Null, Null, files, <<>>)
      ELSE IF ~v.ok /\ v.isExpired /\ v.isRenewable
        THEN IF options.onRotate = Null
               THEN Notified(options, registered, env.handler,
                             "onKeyMissingRotateOption", <<key, options>>,
                             Null, key, files, <<>>)
             ELSE IF renew.threw
               THEN Ended(TRUE, Null, Null, "none", <<>>, <<>>, files, <<>>)
             ELSE Notified(options, registered, env.handler, "onKeyRenewed",
                           <<[expired |-> key, ready |-> renew.key], renew.path,
                             options>>,
                           renew.key, key, renew.fs,
                           <<[path |-> renew.path, key |-> renew.key,
                              merge |-> Truthy(options.onRotate.merge)]>>)
      ELSE IF ~v.ok /\ v.isExpired /\ ~v.isRenewable
        THEN Notified(options, registered, env.handler, "onKeyExpired",
                      <<path, key>>, Null, key, files, <<>>)
      ELSE IF ~v.ok
        THEN Notified(options, registered, env.handler, "onKeyInvalid",
                      <<key, v.message, v.errorOn>>, Null, Null, files, <<>>)
      ELSE Ended(FALSE, key, Null, "none", <<>>, <<>>, files, <<>>)

(* a variant of Compared that ignores the secret *)
ComparedHashed(key, hashedKey) == hashedKey = key.hashed

(* KeyManager.verifyKey, once getKey gave a record: the comparison *)
Compared(key, hashedKey) ==
  IF Truthy(key.secret)
    THEN verifyHash(key.key, hashedKey, key.secret)
    ELSE hashedKey = key.hashed

(* a variant of Verified that accepts every candidate when there is no
   record *)
VerifiedWithoutKey(got, hashedKey) ==
  [threw |-> got.threw, getKeyThrew |-> got.threw,
   value |-> IF got.threw THEN FALSE
             ELSE IF got.ready = Null /\ got.expired = Null THEN TRUE
             ELSE IF got.expired # Null THEN Compared(got.expired, hashedKey)
             ELSE Compared(got.ready, hashedKey),
   ready |-> got.ready, expired |-> got.expired,
   hook |-> got.hook, ran |-> got.ran, fs |-> got.fs]

(* KeyManager.verifyKey after its getKey call: [threw, value] and what the
   getKey call gave; verifyKey throws when, and only when, getKey does *)
Verified(got, hashedKey) ==
  [threw |-> got.threw, getKeyThrew |-> got.threw,
   value |-> IF got.threw THEN FALSE
             ELSE IF got.ready = Null /\ got.expired = Null THEN FALSE
             ELSE IF got.expired # Null THEN Compared(got.expired, hashedKey)
             ELSE Compared(got.ready, hashedKey),
   ready |-> got.ready, expired |-> got.expired,
   hook |-> got.hook, ran |-> got.ran, fs |-> got.fs]

(* a variant of verifyKey that hands getKey a rotation spec, the new key
   taking the version that was asked for *)
verifyKeyRotating(files, registered, template, t, hashedKey, options, env) ==
  Verified(getKey(files, registered, template, t,
                  [path |-> options.path, version |-> String(options.version),
                   onRotate |-> [duration |-> Num(1), unit |-> Str("seconds"),
                                 rotate |-> Bool(TRUE), merge |-> Undef(FALSE),
                                 keyLength |-> Undef(0)],
                   disableHooks |-> options.disableHooks],
                  [env EXCEPT !.rnd.version = options.version]),
           hashedKey)

(* KeyManager.verifyKey *)
verifyKey(files, registered, template, t, hashedKey, options, env) ==
  Verified(getKey(files, registered, template, t,
                  [path |-> options.path, version |-> String(options.version),
                   onRotate |-> Null, disableHooks |-> options.disableHooks],
                  env),
           hashedKey)

-----------------------------------------------------------------------------
(* Inputs of the calls *)

Durations == {Num(-1), Num(0), Num(1)}
Units == {Str("seconds")}

(* TGenerateKeyOptions: duration, unit, rotate and merge are optional.  The
   lifetimes tried: already over, one second, none given. *)
Lifetimes == {<<Num(-1), Str("seconds")>>, <<Num(1), Str("seconds")>>,
              <<Undef(0), Undef("")>>}

GenerateKeyOptions ==
  {[type |-> Str(ty), duration |-> e[1], unit |-> e[2], rotate |-> r,
    merge |-> m, keyLength |-> Undef(0)] :
     ty \in Types, e \in Lifetimes, r \in {Bool(TRUE), Undef(FALSE)},
     m \in {Bool(TRUE), Undef(FALSE)}}

(* options whose duration is half a second or a second and a half *)
FractionKeyOptions ==
  {[type |-> Str(ty), duration |-> d, unit |-> Str("seconds"), rotate |-> r,
    merge |-> Undef(FALSE), keyLength |-> Undef(0)] :
     ty \in Types, d \in {NumHalf(0), NumHalf(1)},
     r \in {Bool(TRUE), Undef(FALSE)}}

(* TGetKeyOptions.onRotate: duration, unit and rotate are required *)
RotateOptions ==
  [duration : Durations, unit : Units, rotate : {Bool(TRUE), Bool(FALSE)},
   merge : {Bool(TRUE), Undef(FALSE)}, keyLength : {Undef(0)}]

Random == [key : RandomWords, secret : RandomWords, salt : RandomWords,
           version : Versions]

(* a well-formed record, as newKey builds it *)
KeyGenerated(from, to, type, version, rotate) ==
  [from |-> from, to |-> to, key |-> Str(<<1>>), secret |-> Str(<<1>>),
   hashed |-> hash(Str(<<1>>), Str(<<1>>), 0, 1), hashedBytes |-> Num(DefaultKeyLength),
   type |-> Str(type), version |-> version, rotate |-> Bool(rotate)]

GoodKey == KeyGenerated(toISOString(0), NON_EXPIRED, "jwt", Str(1), TRUE)

(* a file of records that this program did not write: version i is the
   i-th record *)
LegacyKeys ==
  << GoodKey,
     [GoodKey EXCEPT !.secret = Undef(1)],
     [GoodKey EXCEPT !.to = toISOString(0)],
     [GoodKey EXCEPT !.to = toISOString(0), !.rotate = Bool(FALSE)],
     [GoodKey EXCEPT !.from = toISOString(MaxTime + 1)],
     [GoodKey EXCEPT !.from = toISOString(MaxTime + 1), !.to = toISOString(0)],
     [GoodKey EXCEPT !.from = Garbage],
     [GoodKey EXCEPT !.to = Garbage],
     [GoodKey EXCEPT !.hashedBytes = Num(-1)],
     [GoodKey EXCEPT !.hashedBytes = Num(-1), !.to = toISOString(0)],
     [GoodKey EXCEPT !.key = Undef(1)],
     [GoodKey EXCEPT !.rotate = Str(TRUE), !.to = toISOString(0)],
     [GoodKey EXCEPT !.version = Bool(1)],
     [GoodKey EXCEPT !.secret = Num(1)] >>

LegacyPath == <<"legacy", 0>>
AllPaths == Paths \cup {LegacyPath}

KeyHooks == {"onKeyNotFound", "onKeyInvalid", "onKeyExpired",
             "onKeyMissingRotateOption", "onKeyRenewed"}
BaseHooks == {"onHookNotFound", "onHookOverriding"}

(* the sets of handlers one useHooks call registers *)
HookSets == {KeyHooks}

-----------------------------------------------------------------------------
(* The state machine *)

(* the callers that may have a getKey call in flight at the same time *)
Callers == {1, 2}
Idle == [pc |-> "idle"]
NoCalls == [c \in Callers |-> Idle]

(* the store folder when the instance is constructed: the files exist and
   are empty, except the file of version 2 and the legacy file *)
PartStore ==
  [p \in AllPaths |-> IF p \in {LegacyPath, <<"v", 2>>} THEN Absent
                      ELSE EmptyText]

Init ==
  /\ now = 0
  /\ file \in {"static", "versioned"}
  /\ fs = PartStore
  /\ hooks = {}
  /\ last = [op |-> "init"]
  /\ getKeyFn = NoFn
  /\ saveKeyFn = NoFn
  /\ calls = NoCalls
  /\ instance = 0
  /\ heap = <<>>

(* the clock advances, two seconds at a time *)
Tick ==
  /\ now + 2 <= MaxTime
  /\ now' = now + 2
  /\ last' = [op |-> "tick"]
  /\ UNCHANGED <<fs, hooks, file, getKeyFn, saveKeyFn, calls, instance, heap>>

(* KM.useHooks / Base.setHooks *)
UseHooks ==
  \E h \in HookSets :
    /\ hooks' = hooks \cup h
    /\ last' = [op |-> "useHooks"]
    /\ UNCHANGED <<now, fs, file, getKeyFn, saveKeyFn, calls, instance, heap>>

(* KeyManager.newKey(options) *)
NewKey ==
  \E options \in GenerateKeyOptions, rnd \in Random :
    LET out == newKey(fs, file, now, options, rnd)
    IN  /\ fs' = out.fs
        /\ last' = [op |-> "newKey", options |-> options, threw |-> out.threw,
                    key |-> IF out.threw THEN Null ELSE out.key,
                    path |-> out.path]
        /\ UNCHANGED <<now, hooks, file, getKeyFn, saveKeyFn, calls, instance, heap>>

(* KeyManager.newKey(options) with a duration that is not a whole number *)
NewKeyFraction ==
  \E options \in FractionKeyOptions, rnd \in Random :
    LET out == newKey(fs, file, now, options, rnd)
    IN  /\ fs' = out.fs
        /\ last' = [op |-> "newKey", options |-> options, threw |-> out.threw,
                    key |-> IF out.threw THEN Null ELSE out.key,
                    path |-> out.path]
        /\ UNCHANGED <<now, hooks, file, getKeyFn, saveKeyFn, calls, instance, heap>>

(* The calls of getKey that are tried.  Only a call whose record is expired
   looks at onRotate, and only one whose record is expired and renewable
   reads the fields of onRotate and generates a key: the other calls are
   tried with one rotation spec and one random draw. *)
SomeRotate == CHOOSE o \in RotateOptions : TRUE
SomeRandom == CHOOSE r \in Random : TRUE

Lookups ==
  {[path |-> p, version |-> v] : p \in Paths, v \in Versions}
  \cup {[path |-> LegacyPath, version |-> Str(i)] :
          i \in IF fs[LegacyPath].kind = "map" THEN DOMAIN LegacyKeys ELSE {1}}

Found(l) ==
  LET loaded == getKeyByStore(fs, l.path, String(l.version))
  IN  IF loaded.threw \/ loaded.value = Null THEN NoVerdict
      ELSE validateKey(loaded.value, now)

RotateChoices(l) ==
  IF Found(l).isRenewable THEN RotateOptions \cup {Null}
  ELSE IF Found(l).isExpired THEN {SomeRotate, Null}
  ELSE {Null}

(* KeyManager.getKey(options) *)
GetKey ==
  \E l \in Lookups, disableHooks \in BOOLEAN,
     handler \in IF hooks = {} THEN {"ok"} ELSE {"ok", "throw"} :
    \E onRotate \in RotateChoices(l),
       rnd \in IF Found(l).isRenewable THEN Random ELSE {SomeRandom} :
      LET options == [path |-> l.path, version |-> l.version,
                      onRotate |-> onRotate, disableHooks |-> disableHooks]
      IN  \E out \in {getKey(fs, hooks, file, now, options,
                             [handler |-> handler, rnd |-> rnd])} :
          /\ fs' = out.fs
          /\ last' = [op |-> "getKey", options |-> options,
                      threw |-> out.threw, ready |-> out.ready,
                      expired |-> out.expired, hook |-> out.hook,
                      args |-> out.args, ran |-> out.ran,
                      saved |-> out.saved]
          /\ UNCHANGED <<now, hooks, file, getKeyFn, saveKeyFn, calls, instance, heap>>

Next == Tick \/ UseHooks \/ NewKey \/ GetKey

Spec == Init /\ [][Next]_vars

(* a store folder that holds the legacy file and nothing else *)
LegacyStore ==
  [p \in AllPaths |-> IF p = LegacyPath THEN JsonText(LegacyKeys) ELSE Absent]

InitLegacy ==
  /\ now = 0
  /\ file \in {"static", "versioned"}
  /\ fs = LegacyStore
  /\ hooks = {}
  /\ last = [op |-> "init"]
  /\ getKeyFn = NoFn
  /\ saveKeyFn = NoFn
  /\ calls = NoCalls
  /\ instance = 0
  /\ heap = <<>>

SpecLegacy == InitLegacy /\ [][Next]_vars

(* the candidates verifyKey is called with: the hashed text of a key made of
   the words 1, 1, 1; that text with another digest, with the salt text
   without its padding, without its digest, with a third part *)
Candidates ==
  {Str(<<2, <<1, 1, 1>>>>), Str(<<2, <<1, 1, 2>>>>), Str(<<3, <<1, 1, 1>>>>),
   Str(<<2>>), Str(<<2, <<1, 1, 1>>, <<>>>>)}

(* KeyManager.verifyKey(hashedKey, path, version, disableGetKeyHooks) *)
VerifyKey ==
  \E l \in Lookups, hashedKey \in Candidates, disableGetKeyHooks \in BOOLEAN :
   \E handler \in IF hooks = {} \/ disableGetKeyHooks THEN {"ok"}
                  ELSE {"ok", "throw"} :
    LET options == [path |-> l.path, version |-> l.version,
                    disableHooks |-> disableGetKeyHooks]
    IN  \E out \in {verifyKey(fs, hooks, file, now, hashedKey, options,
                              [handler |-> handler, rnd |-> SomeRandom])} :
        /\ fs' = out.fs
        /\ last' = [op |-> "verifyKey", hashedKey |-> hashedKey,
                    options |-> options, threw |-> out.threw,
                    getKeyThrew |-> out.getKeyThrew,
                    value |-> out.value, ready |-> out.ready,
                    expired |-> out.expired, hook |-> out.hook,
                    ran |-> out.ran]
        /\ UNCHANGED <<now, hooks, file, getKeyFn, saveKeyFn, calls, instance, heap>>

(* the custom functions that are tried: a load function that knows a valid
   record, one that knows two records that expire at time 0, one of them
   renewable; a save function *)
GetKeyFns ==
  {[set |-> TRUE, table |-> <<GoodKey, Null>>],
   [set |-> TRUE, table |-> <<LegacyKeys[3], LegacyKeys[4]>>]}
SaveKeyFns == {[set |-> TRUE, name |-> "db"]}

(* Store.useGetKey(getKeyFn) *)
UseGetKey ==
  \E fn \in GetKeyFns :
    /\ getKeyFn' = fn
    /\ last' = [op |-> "useGetKey"]
    /\ UNCHANGED <<now, fs, hooks, file, saveKeyFn, calls, instance, heap>>

(* Store.useSaveKey(saveKeyFn) *)
UseSaveKey ==
  \E fn \in SaveKeyFns :
    /\ saveKeyFn' = fn
    /\ last' = [op |-> "useSaveKey"]
    /\ UNCHANGED <<now, fs, hooks, file, getKeyFn, calls, instance, heap>>

NextCustom == Tick \/ UseHooks \/ UseGetKey \/ UseSaveKey \/ NewKey \/ GetKey

NextVerify == Tick \/ UseHooks \/ NewKey \/ VerifyKey

(* an instance whose file template names the version: every version has a
   file of its own *)
InitVersioned ==
  /\ now = 0
  /\ file = "versioned"
  /\ fs = PartStore
  /\ hooks = {}
  /\ last = [op |-> "init"]
  /\ getKeyFn = NoFn
  /\ saveKeyFn = NoFn
  /\ calls = NoCalls
  /\ instance = 0
  /\ heap = <<>>

SpecVerify == InitVersioned /\ [][NextVerify]_vars

(* a store folder in which no key file has been created yet *)
NoStore == [p \in AllPaths |-> Absent]

InitCustom ==
  /\ now = 0
  /\ file = "versioned"
  /\ fs = NoStore
  /\ hooks = {}
  /\ last = [op |-> "init"]
  /\ getKeyFn = NoFn
  /\ saveKeyFn = NoFn
  /\ calls = NoCalls
  /\ instance = 0
  /\ heap = <<>>

SpecCustom == InitCustom /\ [][NextCustom]_vars

SpecLegacyVerify == InitLegacy /\ [][NextVerify]_vars

NextDuration == Tick \/ NewKey \/ NewKeyFraction

SpecDuration == InitVersioned /\ [][NextDuration]_vars

(* Two getKey calls in flight.  A call runs from one await to the next in
   one step: the load (getKeyByStore), then, for a rotation, the read of
   saveKeyFile, the opening of the file by writeFile, which truncates it,
   and the write, after which the call notifies and returns. *)

(* an expired record with rotate = true, in the one file of the instance *)
OldKey == KeyGenerated(toISOString(-2), toISOString(-1), "api", Str(1), TRUE)
RacePath == <<"k", 0>>
RaceStore ==
  [p \in AllPaths |-> IF p = RacePath THEN JsonText(<<OldKey>>) ELSE Absent]

(* the rotation specs of the calls: they differ in merge *)
RaceRotations ==
  {o \in RotateOptions : o.duration = Num(1) /\ o.rotate = Bool(TRUE)}

InitRace ==
  /\ now = 0
  /\ file = "static"
  /\ fs = RaceStore
  /\ hooks = {}
  /\ last = [op |-> "init"]
  /\ getKeyFn = NoFn
  /\ saveKeyFn = NoFn
  /\ calls = NoCalls
  /\ instance = 0
  /\ heap = <<>>

(* a call that has returned or thrown; `nth` counts the writes up to its
   own, `text` is what it wrote *)
Done(options, out, rotated, new, nth, text) ==
  [pc |-> "done", options |-> options, threw |-> out.threw,
   ready |-> out.ready, expired |-> out.expired, hook |-> out.hook,
   rotated |-> rotated, new |-> new, nth |-> nth, text |-> text]

(* the writes that have been completed *)
Written == Cardinality({c \in Callers : calls[c].pc = "done" /\ calls[c].nth > 0})

(* getKey up to the await of saveKeyFile's read: the record is loaded and
   classified, and for a rotation the new record is generated *)
RaceLoad ==
  \E c \in Callers, onRotate \in RaceRotations, disableHooks \in BOOLEAN :
   \E rnd \in Random, handler \in IF hooks = {} THEN {"ok"} ELSE {"ok", "throw"} :
    LET options == [path |-> RacePath, version |-> Str(1),
                    onRotate |-> onRotate, disableHooks |-> disableHooks]
        loaded == getKeyByStore(fs, RacePath, Str(1))
    IN  /\ calls[c].pc = "idle"
        /\ IF /\ ~loaded.threw
              /\ loaded.value # Null
              /\ validateKey(loaded.value, now).isRenewable
             THEN calls' = [calls EXCEPT ![c] =
                    [pc |-> "saveRead", options |-> options,
                     expired |-> loaded.value,
                     new |-> newKey(fs, file, now,
                                    [type |-> loaded.value.type,
                                     duration |-> onRotate.duration,
                                     unit |-> onRotate.unit,
                                     rotate |-> onRotate.rotate,
                                     merge |-> onRotate.merge,
                                     keyLength |-> onRotate.keyLength],
                                    rnd).key]]
             ELSE calls' = [calls EXCEPT ![c] =
                    Done(options,
                         getKey(fs, hooks, file, now, options,
                                [handler |-> handler, rnd |-> rnd]),
                         FALSE, Null, 0, Absent)]
        /\ UNCHANGED <<now, fs, hooks, file, last, getKeyFn, saveKeyFn, instance, heap>>

(* Store.saveKeyFile up to the await of the write: the file is read *)
RaceSaveRead ==
  \E c \in Callers :
    LET call == calls[c]
        target == getFilename(file, call.new.type, call.new.version)
        savedData == getKeyFileData(fs, target)
    IN  /\ call.pc = "saveRead"
        /\ calls' = [calls EXCEPT ![c] =
              IF savedData.threw
                THEN Done(call.options, Ended(TRUE, Null, Null, "none", <<>>,
                                              <<>>, fs, <<>>),
                          TRUE, call.new, 0, Absent)
                ELSE [pc |-> "open", options |-> call.options,
                      expired |-> call.expired, new |-> call.new,
                      saveData |-> IF Truthy(call.options.onRotate.merge)
                                     THEN savedData.value ELSE <<>>]]
        /\ UNCHANGED <<now, fs, hooks, file, last, getKeyFn, saveKeyFn, instance, heap>>

(* FileUtil.write: writeFile opens the file with flag 'w', which truncates
   it *)
RaceWriteOpen ==
  \E c \in Callers :
    LET call == calls[c]
        target == getFilename(file, call.new.type, call.new.version)
    IN  /\ call.pc = "open"
        /\ fs' = write(fs, target, EmptyText)
        /\ calls' = [calls EXCEPT ![c].pc = "write"]
        /\ UNCHANGED <<now, hooks, file, last, getKeyFn, saveKeyFn, instance, heap>>

(* the text is written; then saveKeyFile and newKey return and getKey calls
   onKeyRenewed and returns *)
RaceWriteDone ==
  \E c \in Callers, handler \in IF hooks = {} THEN {"ok"} ELSE {"ok", "throw"} :
    LET call == calls[c]
        target == getFilename(file, call.new.type, call.new.version)
        text == JsonText(Put(call.saveData, String(call.new.version).v, call.new))
    IN  /\ call.pc = "write"
        /\ fs' = write(fs, target, text)
        /\ calls' = [calls EXCEPT ![c] =
              Done(call.options,
                   Notified(call.options, hooks, handler, "onKeyRenewed",
                            <<[expired |-> call.expired, ready |-> call.new],
                              target, call.options>>,
                            call.new, call.expired, fs', <<>>),
                   TRUE, call.new, Written + 1, text)]
        /\ UNCHANGED <<now, hooks, file, last, getKeyFn, saveKeyFn, instance, heap>>

NextRace ==
  UseHooks \/ RaceLoad \/ RaceSaveRead \/ RaceWriteOpen \/ RaceWriteDone

SpecRace == InitRace /\ [][NextRace]_vars

(* a store folder whose only file holds a text that is not the JSON of an
   object *)
DamagedStore ==
  [p \in AllPaths |-> IF p = <<"k", 0>> THEN BadText ELSE Absent]

InitDamaged ==
  /\ now = 0
  /\ file \in {"static", "versioned"}
  /\ fs = DamagedStore
  /\ hooks = {}
  /\ last = [op |-> "init"]
  /\ getKeyFn = NoFn
  /\ saveKeyFn = NoFn
  /\ calls = NoCalls
  /\ instance = 0
  /\ heap = <<>>

SpecDamaged == InitDamaged /\ [][Next]_vars

-----------------------------------------------------------------------------
(* src/core/module.core.ts, src/core/store.core.ts, src/core/base.core.ts,
   src/index.ts: the modules and their settings *)

(* a Partial<TModuleOptions> is a function of the names it gives; <<>> is
   the one that gives none *)
DEFAULT_MODULE_OPTIONS == [path |-> "keys", quiet |-> FALSE]

(* the options given to create, and those given to clone *)
CreateOptions == {<<>>, [quiet |-> TRUE]}
ExtendOptions == {<<>>, [path |-> "custom"]}

(* { ...a, ...b } *)
Spread(a, b) ==
  [name \in DOMAIN a \cup DOMAIN b |->
     IF name \in DOMAIN b THEN b[name] ELSE a[name]]

(* new KM(options): no custom function, storePath undefined (here ""), the
   logger DEFAULT_BASE_LOGGER, a Map of hooks without entries *)
Module(options) ==
  [options |-> Spread(DEFAULT_MODULE_OPTIONS, options),
   saveKeyFn |-> NoFn, getKeyFn |-> NoFn, storePath |-> "",
   logger |-> "DEFAULT_BASE_LOGGER", hooks |-> <<>>]

(* Base.setHooks: every entry is set; the onHookOverriding handler that is
   called for a name already there gets no handler among ModuleHooks *)
setHooks(module, handlers) ==
  [module EXCEPT !.hooks = Spread(module.hooks, handlers)]

(* a clone that leaves the logger of the new module as it was constructed *)
cloneWithoutLogger(original, extend) ==
  LET made == Module(Spread(original.options, extend))
      saving == IF original.saveKeyFn.set
                THEN [made EXCEPT !.saveKeyFn = original.saveKeyFn] ELSE made
      getting == IF original.getKeyFn.set
                 THEN [saving EXCEPT !.getKeyFn = original.getKeyFn]
                 ELSE saving
      stored == IF original.storePath # ""
                THEN [getting EXCEPT !.storePath = original.storePath]
                ELSE getting
  IN  setHooks(stored, original.hooks)

(* KM.clone(extend): useSaveKey, useGetKey and useStorePath for what is set,
   then setHooks(getHooks()) and setLogger(getLogger()) *)
clone(original, extend) ==
  LET made == Module(Spread(original.options, extend))
      saving == IF original.saveKeyFn.set
                THEN [made EXCEPT !.saveKeyFn = original.saveKeyFn] ELSE made
      getting == IF original.getKeyFn.set
                 THEN [saving EXCEPT !.getKeyFn = original.getKeyFn]
                 ELSE saving
      stored == IF original.storePath # ""
                THEN [getting EXCEPT !.storePath = original.storePath]
                ELSE getting
  IN  [setHooks(stored, original.hooks) EXCEPT !.logger = original.logger]

(* index.ts: clone(instance, extend) *)
cloneOf(original, extend) == Module(Spread(original.options, extend))

(* index.ts: create(options, only) *)
Create ==
  \E options \in CreateOptions, only \in BOOLEAN :
    /\ (only \/ instance = 0) => Len(heap) < MaxInstances
    /\ heap' = IF only \/ instance = 0
               THEN Append(heap, Module(options)) ELSE heap
    /\ instance' = IF ~only /\ instance = 0 THEN Len(heap) + 1 ELSE instance
    /\ last' = [op |-> "create", options |-> options, only |-> only,
                ref |-> IF only THEN Len(heap) + 1 ELSE instance']
    /\ UNCHANGED <<now, fs, hooks, file, getKeyFn, saveKeyFn, calls>>

(* index.ts: clone(instance, extend) *)
CloneOf ==
  \E i \in 1..Len(heap), extend \in ExtendOptions :
    /\ Len(heap) < MaxInstances
    /\ heap' = Append(heap, cloneOf(heap[i], extend))
    /\ last' = [op |-> "cloneOf", of |-> i, extend |-> extend,
                ref |-> Len(heap) + 1]
    /\ UNCHANGED <<now, fs, hooks, file, getKeyFn, saveKeyFn, calls, instance>>

(* KM.clone(extend) *)
Clone ==
  \E i \in 1..Len(heap), extend \in ExtendOptions :
    /\ Len(heap) < MaxInstances
    /\ heap' = Append(heap, clone(heap[i], extend))
    /\ last' = [op |-> "clone", of |-> i, extend |-> extend,
                ref |-> Len(heap) + 1]
    /\ UNCHANGED <<now, fs, hooks, file, getKeyFn, saveKeyFn, calls, instance>>

(* KM.useHooks(hooks) on one of the modules *)
ModuleUseHooks ==
  \E i \in 1..Len(heap), handlers \in {[onKeyNotFound |-> "handler"]} :
    /\ heap' = [heap EXCEPT ![i] = setHooks(@, handlers)]
    /\ last' = [op |-> "set", ref |-> i]
    /\ UNCHANGED <<now, fs, hooks, file, getKeyFn, saveKeyFn, calls, instance>>

(* Base.setLogger(logger) on one of the modules *)
ModuleSetLogger ==
  \E i \in 1..Len(heap), logger \in {"logger"} :
    /\ heap' = [heap EXCEPT ![i].logger = logger]
    /\ last' = [op |-> "set", ref |-> i]
    /\ UNCHANGED <<now, fs, hooks, file, getKeyFn, saveKeyFn, calls, instance>>

(* Store.useSaveKey(saveKeyFn) on one of the modules *)
ModuleUseSaveKey ==
  \E i \in 1..Len(heap), fn \in SaveKeyFns :
    /\ heap' = [heap EXCEPT ![i].saveKeyFn = fn]
    /\ last' = [op |-> "set", ref |-> i]
    /\ UNCHANGED <<now, fs, hooks, file, getKeyFn, saveKeyFn, calls, instance>>

(* Store.useGetKey(getKeyFn) on one of the modules *)
ModuleUseGetKey ==
  \E i \in 1..Len(heap), fn \in {[set |-> TRUE, name |-> "db"]} :
    /\ heap' = [heap EXCEPT ![i].getKeyFn = fn]
    /\ last' = [op |-> "set", ref |-> i]
    /\ UNCHANGED <<now, fs, hooks, file, getKeyFn, saveKeyFn, calls, instance>>

(* Store.useStorePath(storePath) on one of the modules *)
ModuleUseStorePath ==
  \E i \in 1..Len(heap), storePath \in {"vault"} :
    /\ heap' = [heap EXCEPT ![i].storePath = storePath]
    /\ last' = [op |-> "set", ref |-> i]
    /\ UNCHANGED <<now, fs, hooks, file, getKeyFn, saveKeyFn, calls, instance>>

(* the functions that index.ts exports, and two of the settings *)
NextIndex == Create \/ CloneOf \/ ModuleUseHooks \/ ModuleSetLogger

SpecIndex == InitVersioned /\ [][NextIndex]_vars

(* one module, constructed with the default options *)
InitClone ==
  /\ now = 0
  /\ file = "versioned"
  /\ fs = NoStore
  /\ hooks = {}
  /\ last = [op |-> "init"]
  /\ getKeyFn = NoFn
  /\ saveKeyFn = NoFn
  /\ calls = NoCalls
  /\ instance = 0
  /\ heap = <<Module(<<>>)>>

NextClone ==
  \/ Clone
  \/ ModuleUseHooks
  \/ ModuleSetLogger
  \/ ModuleUseSaveKey
  \/ ModuleUseGetKey
  \/ ModuleUseStorePath

SpecClone == InitClone /\ [][NextClone]_vars

(* The registry of hooks of one module: Base.hooks, a Map from name to
   handler.  The handlers that are tried: two that return, one that
   throws. *)
HookHandlers ==
  {[id |-> "f", throws |-> FALSE], [id |-> "g", throws |-> FALSE],
   [id |-> "h", throws |-> TRUE]}

(* the names that are registered, and the names that are run *)
RegisteredNames == {"onKeyNotFound", "onHookNotFound", "onHookOverriding"}
RunNames == {"onKeyNotFound", "onKeyExpired"}

(* the argument of one useHooks call, as Object.entries gives it: one entry
   or two entries of different names, in the order of the object *)
HookEntries ==
  {<< <<n, h>> >> : n \in RegisteredNames, h \in HookHandlers}
  \cup {<< <<e[1], [id |-> "f", throws |-> FALSE]>>, <<e[2], g>> >> :
          e \in {p \in RegisteredNames \X RegisteredNames : p[1] # p[2]},
          g \in HookHandlers}

(* Base.setHooks: the forEach over the entries.  For a name that the Map
   has, the onHookOverriding handler of the Map, if there is one, is called
   with the name, and when it throws the forEach ends there; then the entry
   is set.  `called` is the calls made, each a handler and its argument. *)
RECURSIVE setHooksEntries(_, _, _)
setHooksEntries(map, entries, called) ==
  IF entries = <<>> THEN [hooks |-> map, called |-> called, threw |-> FALSE]
  ELSE LET name == entries[1][1]
           overriding == /\ name \in DOMAIN map
                         /\ "onHookOverriding" \in DOMAIN map
           calling == IF overriding
                        THEN Append(called, <<map["onHookOverriding"], name>>)
                        ELSE called
       IN  IF overriding /\ map["onHookOverriding"].throws
             THEN [hooks |-> map, called |-> calling, threw |-> TRUE]
           ELSE setHooksEntries(Spread(map, [n \in {name} |-> entries[1][2]]),
                                Tail(entries), calling)

(* KM.useHooks(hooks) / KM.setHook(name, handler) on the module *)
SetHooks ==
  \E entries \in HookEntries :
    /\ heap' = [heap EXCEPT ![1].hooks =
                  setHooksEntries(heap[1].hooks, entries, <<>>).hooks]
    /\ last' = [op |-> "setHooks", entries |-> entries,
                before |-> heap[1].hooks,
                called |-> setHooksEntries(heap[1].hooks, entries, <<>>).called,
                threw |-> setHooksEntries(heap[1].hooks, entries, <<>>).threw]
    /\ UNCHANGED <<now, fs, hooks, file, getKeyFn, saveKeyFn, calls, instance>>

(* Base.runHook(name, ...args) on the module: the handlers that are called,
   each with its arguments, and what is returned: undefined for a name that
   the Map does not have, else what the handler returns *)
RunHook ==
  \E name \in RunNames :
    LET ran == runHook(DOMAIN heap[1].hooks, name)
        found == name \in DOMAIN heap[1].hooks
    IN  /\ last' = [op |-> "runHook", name |-> name,
                    called |-> [i \in 1..Len(ran) |->
                                  <<heap[1].hooks[ran[i]],
                                    IF found THEN "args" ELSE name>>],
                    threw |-> \E i \in 1..Len(ran) : heap[1].hooks[ran[i]].throws,
                    value |-> IF found THEN heap[1].hooks[name].id
                              ELSE "undefined"]
        /\ UNCHANGED <<now, fs, hooks, file, getKeyFn, saveKeyFn, calls, instance, heap>>

NextHooks == SetHooks \/ RunHook

SpecHooks == InitClone /\ [][NextHooks]_vars

-----------------------------------------------------------------------------
(* src/utils/crypto.util.ts: encrypt and decrypt of a CryptoService whose
   encoding is 'hex'.  A hex string is the sequence of its digits, a
   WordArray the sequence of its bytes, a text the sequence of the codes of
   its characters (below 128, so that its UTF-8 bytes are its codes).  The
   framing, the slicing, the CBC chaining and the PKCS7 padding are those of
   the code and of the library; PBKDF2 and the AES block are stood for by
   functions of the same arguments: the derived key is one byte, the block
   function adds the bytes of the key to every byte of the block. *)

DEFAULT_CRYPTO_OPTIONS ==
  [algorithm |-> "aes-256-cbc", kdf |-> "pbkdf2", keyLength |-> 32,
   ivLength |-> 16, saltLength |-> 32, tagLength |-> 16,
   encoding |-> "hex"]

(* new CryptoService(options) *)
CryptoService(options) == Spread(DEFAULT_CRYPTO_OPTIONS, options)

(* Number.prototype.toString(16) *)
RECURSIVE toString16(_)
toString16(n) ==
  IF n < 16 THEN <<n>> ELSE toString16(n \div 16) \o <<n % 16>>

(* parseInt(hexStr, 16) of a string of hex digits; NaN for the empty one *)
NaN == -1
RECURSIVE parseInt16(_)
parseInt16(hexStr) ==
  IF hexStr = <<>> THEN NaN
  ELSE IF Len(hexStr) = 1 THEN hexStr[1]
  ELSE 16 * parseInt16(SubSeq(hexStr, 1, Len(hexStr) - 1))
         + hexStr[Len(hexStr)]

(* String.prototype.substring(start, end): NaN and negatives count as 0,
   what exceeds the length as the length, and the two are swapped when
   start > end *)
substring(str, start, end) ==
  LET clamp(x) == IF x < 0 THEN 0 ELSE IF x > Len(str) THEN Len(str) ELSE x
      lo == IF clamp(start) < clamp(end) THEN clamp(start) ELSE clamp(end)
      hi == IF clamp(start) < clamp(end) THEN clamp(end) ELSE clamp(start)
  IN  SubSeq(str, lo + 1, hi)

(* CryptoJS.enc.Hex.parse: two digits a byte; a last digit that is alone is
   a byte of its own *)
HexParse(hexStr) ==
  [i \in 1..((Len(hexStr) + 1) \div 2) |->
     IF 2 * i <= Len(hexStr) THEN 16 * hexStr[2 * i - 1] + hexStr[2 * i]
     ELSE hexStr[2 * i - 1]]

(* wordArray.toString(CryptoJS.enc.Hex) *)
HexString(wordArray) ==
  [j \in 1..(2 * Len(wordArray)) |->
     IF j % 2 = 1 THEN wordArray[(j + 1) \div 2] \div 16
     ELSE wordArray[j \div 2] % 16]

(* a ^ b on bytes *)
RECURSIVE Xor(_, _)
Xor(a, b) ==
  IF a = 0 THEN b
  ELSE IF b = 0 THEN a
  ELSE 2 * Xor(a \div 2, b \div 2) + ((a + b) % 2)

RECURSIVE SumOf(_)
SumOf(bytes) ==
  IF bytes = <<>> THEN 0 ELSE bytes[1] + SumOf(SubSeq(bytes, 2, Len(bytes)))

(* CryptoService.deriveKey: the secret read as hex for kdf 'none', else
   PBKDF2 of the password, the salt and keyLength / 4 words (no word for
   NaN) *)
deriveKey(options, password, salt, keyLength) ==
  IF options.kdf = "none" THEN HexParse(password)
  ELSE IF keyLength = NaN THEN <<>>
  ELSE <<(SumOf(password) + SumOf(salt) + keyLength) % 256>>

(* the AES block function (sign 1) and its inverse (sign -1) *)
AESBlock(key, block, sign) ==
  [i \in 1..16 |-> (block[i] + sign * (SumOf(key) % 256) + 256) % 256]

(* CBC: every block is xored with the block before it (first with the IV,
   where a byte that the IV lacks counts as 0) and then enciphered *)
RECURSIVE CBC(_, _, _)
CBC(key, prev, data) ==
  IF data = <<>> THEN <<>>
  ELSE LET block == [i \in 1..16 |->
                       Xor(data[i], IF i <= Len(prev) THEN prev[i] ELSE 0)]
           done == AESBlock(key, block, 1)
       IN  done \o CBC(key, done, SubSeq(data, 17, Len(data)))

(* CryptoJS.AES.encrypt(plainText, key, {iv, CBC, Pkcs7}).ciphertext *)
AESencrypt(plainText, key, iv) ==
  LET n == 16 - (Len(plainText) % 16)
  IN  CBC(key, iv, plainText \o [i \in 1..n |-> n])

(* CryptoJS.AES.decrypt(...): a last block that is not whole is filled with
   zeros; the bytes stay as many as the ciphertext had; Pkcs7.unpad takes
   the low byte of the last word as the number of bytes to drop, and a
   WordArray of no or fewer bytes reads as the empty one *)
AESdecrypt(ciphertext, key, iv) ==
  LET n == Len(ciphertext)
      blocks == (n + 15) \div 16
      filled == [i \in 1..(16 * blocks) |->
                   IF i <= n THEN ciphertext[i] ELSE 0]
      before(i) == IF i > 16 THEN filled[i - 16]
                   ELSE IF i <= Len(iv) THEN iv[i] ELSE 0
      plain == [i \in 1..(16 * blocks) |->
                  LET first == 16 * ((i - 1) \div 16)
                  IN  Xor(AESBlock(key, SubSeq(filled, first + 1, first + 16),
                                   -1)[i - first],
                          before(i))]
      nPaddingBytes == IF n = 0 THEN 0 ELSE plain[4 * ((n - 1) \div 4) + 4]
  IN  IF n - nPaddingBytes <= 0 THEN <<>>
      ELSE SubSeq(plain, 1, n - nPaddingBytes)

(* CryptoService.encrypt(plainText, secret, lengths): the envelope, and the
   salt, the IV and the ciphertext that went into it; rnd holds the byte
   that the random generator gives for the salt and for the IV *)
encrypt(options, plainText, secret, lengths, rnd) ==
  LET given(name) == IF name \in DOMAIN lengths THEN lengths[name]
                     ELSE options[name]
      keyLength == given("keyLength")
      salt == IF options.kdf # "none"
              THEN [i \in 1..given("saltLength") |-> rnd.salt] ELSE <<>>
      iv == [i \in 1..given("ivLength") |-> rnd.iv]
      key == deriveKey(options, secret, salt, keyLength)
      ciphertext == AESencrypt(plainText, key, iv)
      padStart(hexStr) == IF Len(hexStr) >= 4 THEN hexStr
                          ELSE [i \in 1..(4 - Len(hexStr)) |-> 0] \o hexStr
      combined == padStart(toString16(keyLength))
                    \o padStart(toString16(Len(salt)))
                    \o padStart(toString16(given("ivLength")))
                    \o HexString(salt) \o HexString(iv)
                    \o HexString(ciphertext)
  IN  [envelope |-> HexString(HexParse(combined)), keyLength |-> keyLength,
       salt |-> salt, iv |-> iv, ciphertext |-> ciphertext]

(* CryptoService.decrypt(encryptedData, secret): what it parses, and the
   outcomes of decrypted.toString(CryptoJS.enc.Utf8), which gives the text
   of bytes that are UTF-8 and throws 'Malformed UTF-8 data' for others: a
   byte of 128 or more may be either *)
decrypt(options, encryptedData, secret) ==
  LET combinedHex == HexString(HexParse(encryptedData))
      plus(a, b) == IF a = NaN \/ b = NaN THEN NaN ELSE a + b
      keyLength == parseInt16(substring(combinedHex, 0, 4))
      saltLength == parseInt16(substring(combinedHex, 4, 8))
      ivLength == parseInt16(substring(combinedHex, 8, 12))
      saltHexLength == plus(saltLength, saltLength)
      ivHexLength == plus(ivLength, ivLength)
      saltHex == IF saltHexLength > 0
                 THEN substring(combinedHex, 12, 12 + saltHexLength)
                 ELSE <<>>
      offset == plus(12, saltHexLength)
      ivHex == substring(combinedHex, offset, plus(offset, ivHexLength))
      encryptedHex == substring(combinedHex, plus(offset, ivHexLength),
                                Len(combinedHex))
      salt == HexParse(saltHex)
      iv == HexParse(ivHex)
      ciphertext == HexParse(encryptedHex)
      key == deriveKey(options, secret, salt, keyLength)
      decrypted == AESdecrypt(ciphertext, key, iv)
  IN  [keyLength |-> keyLength, salt |-> salt, iv |-> iv,
       ciphertext |-> ciphertext,
       outcomes |-> IF \A i \in 1..Len(decrypted) : decrypted[i] < 128
                    THEN {Returned(decrypted)}
                    ELSE {Thrown, Returned(decrypted)}]

(* the options, texts, secrets and lengths that are tried: 'hi', a text of
   16 characters that ends with the character of code 1, the empty text *)
CryptoOptions ==
  {<<>>, [kdf |-> "none"], [keyLength |-> 16], [algorithm |-> "aes-128-cbc"],
   [algorithm |-> "aes-256-gcm"]}
Plaintexts ==
  {<<104, 105>>, [i \in 1..16 |-> IF i = 16 THEN 1 ELSE 97], <<>>}
Secrets == {<<1, 2>>, <<3, 4>>}
LengthOverrides ==
  {<<>>, [saltLength |-> 8, ivLength |-> 16], [keyLength |-> 65536]}

(* what is handed to decrypt: the envelope; its first 4 bytes; its first 20
   bytes; the envelope without its last 16 bytes; the envelope with another
   digit in its IV length field; the envelope with another last digit, which
   is one of the ciphertext *)
Envelopes(envelope) ==
  {envelope, SubSeq(envelope, 1, 8), SubSeq(envelope, 1, 40),
   SubSeq(envelope, 1, Len(envelope) - 32),
   [envelope EXCEPT ![11] = (@ + 1) % 16],
   [envelope EXCEPT ![Len(envelope)] = (@ + 1) % 16]}

(* new CryptoService(options).encrypt(plainText, secret, lengths) *)
Encrypt ==
  \E given \in CryptoOptions, plainText \in Plaintexts, secret \in Secrets, lengths \in LengthOverrides :
    /\ last' = [op |-> "encrypt", options |-> CryptoService(given),
                plainText |-> plainText, secret |-> secret,
                lengths |-> lengths,
                out |-> encrypt(CryptoService(given), plainText, secret,
                                lengths, [salt |-> 7, iv |-> 9])]
    /\ UNCHANGED <<now, fs, hooks, file, getKeyFn, saveKeyFn, calls, instance, heap>>

(* decrypt(encryptedData, secret) by the same service, with the same secret *)
Decrypt ==
  /\ last.op = "encrypt"
  /\ \E encryptedData \in Envelopes(last.out.envelope) :
       \E outcome \in decrypt(last.options, encryptedData, last.secret).outcomes :
         last' = [op |-> "decrypt", options |-> last.options,
                  plainText |-> last.plainText, secret |-> last.secret,
                  lengths |-> last.lengths, envelope |-> last.out.envelope,
                  encryptedData |-> encryptedData, outcome |-> outcome]
  /\ UNCHANGED <<now, fs, hooks, file, getKeyFn, saveKeyFn, calls, instance, heap>>

NextCrypto == Encrypt \/ Decrypt

SpecCrypto == InitVersioned /\ [][NextCrypto]_vars

(* CryptoService.hash and verifyHash on texts of one and of two characters,
   with a salt that is drawn and with one that is given (2 is the text of
   the word 1, 3 the same text without its padding) *)
Texts == {<<1>>, <<1, 2>>, <<2, 1>>}

(* what is handed to verifyHash for a record: the record; it with another
   first character in its digest; it followed by ':' and more text; its
   salt alone; it without salt; it without digest *)
HashedRecords(hashed) ==
  {hashed,
   Str(<<hashed.v[1], [hashed.v[2] EXCEPT ![1] = @ + 1]>>),
   Str(hashed.v \o << <<9>> >>),
   Str(<<hashed.v[1]>>),
   Str(<<0, hashed.v[2]>>),
   Str(<<hashed.v[1], <<>>>>)}

(* CryptoService.hash(data, secret, salt) *)
Hash ==
  \E data \in Texts, secret \in Texts, salt \in {0, 2, 3}, rnd \in {1, 2} :
    /\ last' = [op |-> "hash", data |-> data, secret |-> secret,
                salt |-> salt,
                hashed |-> hash(Str(data), Str(secret), salt, rnd)]
    /\ UNCHANGED <<now, fs, hooks, file, getKeyFn, saveKeyFn, calls, instance, heap>>

(* CryptoService.verifyHash(data, hashedData, secret) *)
VerifyHash ==
  /\ last.op = "hash"
  /\ \E data \in Texts, secret \in Texts, hashedData \in HashedRecords(last.hashed) :
       last' = [op |-> "verifyHash", data |-> data, secret |-> secret,
                hashedData |-> hashedData, of |-> last,
                result |-> verifyHash(Str(data), hashedData, Str(secret))]
  /\ UNCHANGED <<now, fs, hooks, file, getKeyFn, saveKeyFn, calls, instance, heap>>

NextHash == Hash \/ VerifyHash

SpecHash == InitVersioned /\ [][NextHash]_vars

(* KeyManager.validateKey on records of every kind.  The records differ
   from a valid one in `from` (a date now or later, a text that is no date,
   a number), in `to` (the sentinel, a date before, at or after the time of
   the call, a text that is no date, undefined), in `rotate` and in
   `hashedBytes` *)
ValidatedKeys ==
  {[GoodKey EXCEPT !.from = f, !.to = t, !.rotate = r, !.hashedBytes = h] :
     f \in {toISOString(0), toISOString(1), toISOString(3), Garbage, Num(0)},
     t \in {NON_EXPIRED, toISOString(0), toISOString(1), toISOString(2),
            Garbage, Undef(0)},
     r \in {Bool(TRUE), Bool(FALSE), Str(TRUE)},
     h \in {Num(DefaultKeyLength), Num(-1), Str(DefaultKeyLength)}}

(* a variant of ValidateKey that notes the verdict in the hook registry *)
ValidateKeyNoting ==
  \E k \in ValidatedKeys :
    /\ last' = [op |-> "validateKey", keyGenerated |-> k, at |-> now,
                after |-> k, verdict |-> validateKey(k, now)]
    /\ hooks' = hooks \cup {"onKeyInvalid"}
    /\ UNCHANGED <<now, fs, file, getKeyFn, saveKeyFn, calls, instance, heap>>

(* KeyManager.validateKey(keyGenerated): the verdict, and the record as it
   is after the call, which assigns to no field of it *)
ValidateKey ==
  \E k \in ValidatedKeys :
    /\ last' = [op |-> "validateKey", keyGenerated |-> k, at |-> now,
                after |-> k, verdict |-> validateKey(k, now)]
    /\ UNCHANGED <<now, fs, hooks, file, getKeyFn, saveKeyFn, calls, instance, heap>>

NextValidate == Tick \/ UseHooks \/ ValidateKey

SpecValidate == InitVersioned /\ [][NextValidate]_vars

-----------------------------------------------------------------------------
(* The vocabulary of the properties *)

(* what a record says of itself at time t *)
NotStarted(k, t) == k.from.date /\ k.from.v > t
Expired(k, t) == k.to.date /\ k.to.v < t

(* every field has its primitive type and the dates parse *)
WellTyped(k) ==
  /\ \A f \in {"from", "to", "key", "hashed", "type"} : k[f].ty = "string"
  /\ k.rotate.ty = "boolean"
  /\ k.version.ty \in {"string", "number"}
  /\ k.hashedBytes.ty = "number"
  /\ k.secret.ty \in {"string", "undefined"}
  /\ k.from.date
  /\ k.to.date \/ k.to = NON_EXPIRED

Valid(k, t) ==
  WellTyped(k) /\ k.hashedBytes.v >= 0 /\ ~NotStarted(k, t) /\ ~Expired(k, t)

FieldNames == {"from", "to", "key", "hashed", "rotate", "type", "version",
               "hashedBytes", "secret"}

(* the record that the files hold at a path under a version, or Null *)
StoredAt(files, path, version) ==
  IF files[path].kind = "map" /\ String(version).v \in DOMAIN files[path].data
    THEN files[path].data[String(version).v] ELSE Null

(* the saves that a call made *)
SavedBy(l) ==
  IF l.op = "getKey" THEN l.saved
  ELSE IF l.op = "newKey" /\ ~l.threw
    THEN <<[path |-> l.path, key |-> l.key, merge |-> Truthy(l.options.merge)]>>
  ELSE <<>>

(* the record that the getKey call of this step finds in the store *)
Asked == StoredAt(fs, last'.options.path, last'.options.version)

(* the record that the last getKey call asked for, as the store holds it now *)
Held == StoredAt(fs, last.options.path, last.options.version)

-----------------------------------------------------------------------------
(* The properties *)

(* C1: a record that getKey returns as ready, loaded or freshly generated by
   a rotation, has started and has not expired at the time of the call. *)
C1_ReadyIsActive ==
  (last.op = "getKey" /\ last.ready # Null)
    => ~NotStarted(last.ready, now) /\ ~Expired(last.ready, now)

(* C2: getKey on an expired record with rotate = true, called with a
   rotation spec, returns {expired: the old record, ready: a new record} of
   the old type, with the spec's rotate flag and lifetime and a version other
   than the old one; the new record is in the store under its own version and
   onKeyRenewed is called. *)
C2_RotationRenews ==
  [][(/\ last'.op = "getKey"
      /\ Asked # Null
      /\ WellTyped(Asked) /\ ~NotStarted(Asked, now) /\ Expired(Asked, now)
      /\ Asked.rotate = Bool(TRUE)
      /\ last'.options.onRotate # Null)
     => LET old == Asked
            new == last'.ready
            rotation == last'.options.onRotate
        IN  /\ ~last'.threw
            /\ last'.expired = old
            /\ new # Null
            /\ new.type = old.type
            /\ new.rotate = rotation.rotate
            /\ rotation.duration.v # 0
                 => new.to = toISOString(now + rotation.duration.v
                                               * UnitSeconds(rotation.unit.v))
            /\ String(new.version) # String(old.version)
            /\ StoredAt(fs', getFilename(file, new.type, new.version),
                        new.version) = new
            /\ ~last'.options.disableHooks => last'.hook = "onKeyRenewed"
    ]_vars

(* C3: getKey on a stored record that is valid returns {ready: the record,
   expired: null}, saves nothing, leaves the files as they are and calls no
   hook. *)
C3_ValidIsReady ==
  [][(last'.op = "getKey" /\ Asked # Null /\ Valid(Asked, now))
     => /\ ~last'.threw
        /\ last'.ready = Asked
        /\ last'.expired = Null
        /\ last'.saved = <<>>
        /\ fs' = fs
        /\ last'.hook = "none"
    ]_vars

(* a valid record was returned as ready while handlers were registered *)
C3_Witness ==
  /\ last.op = "getKey"
  /\ ~last.threw
  /\ last.ready # Null
  /\ last.ready = Held
  /\ Valid(last.ready, now)
  /\ last.expired = Null
  /\ hooks # {}

(* C4: getKey on an expired record with rotate = false returns {ready: null,
   expired: the record}, with or without a rotation spec, saves nothing and
   calls onKeyExpired. *)
C4_ExpiredTerminal ==
  [][(/\ last'.op = "getKey"
      /\ Asked # Null
      /\ WellTyped(Asked) /\ ~NotStarted(Asked, now) /\ Expired(Asked, now)
      /\ Asked.rotate = Bool(FALSE))
     => /\ ~last'.threw
        /\ last'.ready = Null
        /\ last'.expired = Asked
        /\ last'.saved = <<>>
        /\ fs' = fs
        /\ ~last'.options.disableHooks => last'.hook = "onKeyExpired"
    ]_vars

(* C5: getKey on an expired record with rotate = true, called without a
   rotation spec, does not throw, returns {ready: null, expired: the record},
   saves nothing and calls onKeyMissingRotateOption. *)
C5_MissingRotateOption ==
  [][(/\ last'.op = "getKey"
      /\ Asked # Null
      /\ WellTyped(Asked) /\ ~NotStarted(Asked, now) /\ Expired(Asked, now)
      /\ Asked.rotate = Bool(TRUE)
      /\ last'.options.onRotate = Null)
     => /\ ~last'.threw
        /\ last'.ready = Null
        /\ last'.expired = Asked
        /\ last'.saved = <<>>
        /\ fs' = fs
        /\ ~last'.options.disableHooks
             => last'.hook = "onKeyMissingRotateOption"
    ]_vars

(* C6: getKey for a path and version under which the store holds no record
   does not throw, returns {ready: null, expired: null}, leaves the files as
   they are and calls onKeyNotFound with the path and the version. *)
C6_NotFound ==
  [][(last'.op = "getKey" /\ Asked = Null)
     => /\ ~last'.threw
        /\ last'.ready = Null
        /\ last'.expired = Null
        /\ fs' = fs
        /\ ~last'.options.disableHooks
             => /\ last'.hook = "onKeyNotFound"
                /\ last'.args = <<last'.options.path, last'.options.version>>
    ]_vars

(* C7: getKey on a stored record that has not started, or that has a field
   of the wrong type or a date that does not parse, returns {ready: null,
   expired: null} and calls onKeyInvalid with the record, a message and the
   name of the failing field. *)
C7_Invalid ==
  (/\ last.op = "getKey"
   /\ Held # Null
   /\ NotStarted(Held, now) \/ ~WellTyped(Held))
  => /\ ~last.threw
     /\ last.ready = Null
     /\ last.expired = Null
     /\ ~last.options.disableHooks
          => /\ last.hook = "onKeyInvalid"
             /\ last.args[1] = Held
             /\ last.args[2] # <<"", "">>
             /\ last.args[3] \in FieldNames

(* C8: a getKey call that follows a newKey call at once, with the path and
   the version that newKey returned, returns {ready: the record newKey
   returned, expired: null}. *)
C8_NewKeyThenGetKey ==
  [][(/\ last.op = "newKey"
      /\ ~last.threw
      /\ last'.op = "getKey"
      /\ last'.options.path = last.path
      /\ String(last'.options.version) = String(last.key.version))
     => /\ ~last'.threw
        /\ last'.ready = last.key
        /\ last'.expired = Null
    ]_vars

(* C9, as stated: a record that the files hold stays in them, under its path
   and version and with every field unchanged, whatever call comes next. *)
C9_NeverLost ==
  [][\A p \in AllPaths :
       fs[p].kind = "map"
         => \A x \in DOMAIN fs[p].data :
              /\ fs'[p].kind = "map"
              /\ x \in DOMAIN fs'[p].data
              /\ fs'[p].data[x] = fs[p].data[x]
    ]_vars

(* C9, amended: a record that the files hold stays in them, under its path
   and version and with every field unchanged, unless the next call saves a
   record to the same file with merge = false or with the same version. *)
C9_LostOnlyByOverwrite ==
  [][\A p \in AllPaths :
       fs[p].kind = "map"
         => \A x \in DOMAIN fs[p].data :
              \/ /\ fs'[p].kind = "map"
                 /\ x \in DOMAIN fs'[p].data
                 /\ fs'[p].data[x] = fs[p].data[x]
              \/ \E i \in DOMAIN SavedBy(last') :
                   /\ SavedBy(last')[i].path = p
                   /\ \/ ~SavedBy(last')[i].merge
                      \/ String(SavedBy(last')[i].key.version).v = x
    ]_vars

(* a rotation saved the new record with merge = true, and the old record is
   still in the file beside it *)
C9_Witness ==
  /\ last.op = "getKey"
  /\ last.saved # <<>>
  /\ last.saved[1].merge
  /\ ~last.threw
  /\ Held = last.expired
  /\ StoredAt(fs, last.saved[1].path, last.ready.version) = last.ready
  /\ String(last.ready.version) # String(last.expired.version)

(* C10: a save with merge = true leaves a file that maps the saved version
   to the saved record and every other version to the record it had. *)
C10_MergeFolds ==
  [][\A i \in DOMAIN SavedBy(last') :
       LET save == SavedBy(last')[i]
           version == String(save.key.version).v
       IN  save.merge
             => /\ fs'[save.path].kind = "map"
                /\ DOMAIN fs'[save.path].data
                     = DOMAIN fs[save.path].data \cup {version}
                /\ fs'[save.path].data[version] = save.key
                /\ \A x \in DOMAIN fs[save.path].data \ {version} :
                     fs'[save.path].data[x] = fs[save.path].data[x]
    ]_vars

(* newKey saved a record with merge = true into a file that held a record
   of another version, and the file holds both *)
C10_Witness ==
  /\ last.op = "newKey"
  /\ ~last.threw
  /\ Truthy(last.options.merge)
  /\ Cardinality(DOMAIN fs[last.path].data) = 2
  /\ StoredAt(fs, last.path, last.key.version) = last.key

(* C11: a save with merge = false into a file that exists, whatever the file
   holds, succeeds and leaves a file whose only entry maps the version of the
   saved record to the record. *)
C11_SaveAloneReplaces ==
  [][(/\ last'.op = "newKey"
      /\ ~Truthy(last'.options.merge)
      /\ fs[last'.path].kind # "absent")
     => /\ ~last'.threw
        /\ fs'[last'.path].kind = "map"
        /\ fs'[last'.path].data
             = [x \in {String(last'.key.version).v} |-> last'.key]
    ]_vars

(* C12: a getKey call, hooks disabled, for a path whose file is missing or
   holds no entry for the version does not throw and returns {ready: null,
   expired: null}; a newKey call whose file is missing does not throw and
   leaves the file holding the record. *)
C12_NotFoundNeverThrows ==
  [][/\ (/\ last'.op = "getKey"
         /\ last'.options.disableHooks
         /\ fs[last'.options.path].kind # "bad"
         /\ Asked = Null)
        => /\ ~last'.threw
           /\ last'.ready = Null
           /\ last'.expired = Null
     /\ (last'.op = "newKey" /\ fs[last'.path].kind = "absent")
        => /\ ~last'.threw
           /\ StoredAt(fs', last'.path, last'.key.version) = last'.key
    ]_vars

(* C13: a getKey call for a path whose file holds a text that is not the
   JSON of an object does not throw, returns {ready: null, expired: null}
   and, unless hooks are disabled, calls a hook. *)
C13_MalformedIsReported ==
  [][(last'.op = "getKey" /\ fs[last'.options.path].kind = "bad")
     => /\ ~last'.threw
        /\ last'.ready = Null
        /\ last'.expired = Null
        /\ ~last'.options.disableHooks => last'.hook # "none"
    ]_vars

(* C14: when the getKey call of verifyKey yields a record, the expired one
   if there is one and else the ready one, it is the stored record and
   verifyKey returns verifyHash(record.key, candidate, record.secret) if the
   record has a secret, and else whether the candidate equals
   record.hashed. *)
C14_VerifyCompares ==
  [][(/\ last'.op = "verifyKey"
      /\ ~last'.getKeyThrew
      /\ last'.ready # Null \/ last'.expired # Null)
     => LET key == IF last'.expired # Null THEN last'.expired ELSE last'.ready
        IN  /\ key = Asked
            /\ ~last'.threw
            /\ last'.value
                 = IF key.secret.ty = "string"
                     THEN verifyHash(key.key, last'.hashedKey, key.secret)
                     ELSE last'.hashedKey = key.hashed
    ]_vars

(* verifyKey accepted, for an expired record that has a secret, a candidate
   that is not the text of record.hashed *)
C14_Witness ==
  /\ last.op = "verifyKey"
  /\ ~last.threw
  /\ last.expired # Null
  /\ last.expired = Held
  /\ Expired(Held, now)
  /\ Held.secret.ty = "string"
  /\ last.hashedKey # Held.hashed
  /\ last.value

(* C15: for a record that newKey created and the store holds, verifyKey
   with the record's hashed text, path and version returns true, before and
   after the record expires; with a candidate whose digest part is not that
   of the hashed text it returns false. *)
C15_OwnHashVerifies ==
  [][(/\ last'.op = "verifyKey"
      /\ last'.options.disableHooks
      /\ Asked # Null)
     => /\ last'.hashedKey = Asked.hashed
             => ~last'.threw /\ last'.value
        /\ (\/ Len(last'.hashedKey.v) < 2
            \/ last'.hashedKey.v[2] # Asked.hashed.v[2])
             => ~last'.threw /\ ~last'.value
    ]_vars

(* verifyKey returned true for the hashed text of a record that has
   expired *)
C15_Witness ==
  /\ last.op = "verifyKey"
  /\ ~last.threw
  /\ Held # Null
  /\ Expired(Held, now)
  /\ last.expired = Held
  /\ last.hashedKey = Held.hashed
  /\ last.value

(* C16: when the getKey call of verifyKey yields {ready: null, expired:
   null}, verifyKey does not throw and returns false, whatever the
   candidate. *)
C16_NoRecordIsFalse ==
  [][(/\ last'.op = "verifyKey"
      /\ ~last'.getKeyThrew
      /\ last'.ready = Null
      /\ last'.expired = Null)
     => ~last'.threw /\ ~last'.value
    ]_vars

(* verifyKey returned false for the hashed text of a stored record that has
   not started *)
C16_Witness ==
  /\ last.op = "verifyKey"
  /\ ~last.threw
  /\ Held # Null
  /\ WellTyped(Held)
  /\ NotStarted(Held, now)
  /\ last.hashedKey = Held.hashed
  /\ ~last.value

(* the handlers that a registered hook may be: one that returns and one that
   throws *)
Handlers == IF hooks = {} THEN {"ok"} ELSE {"ok", "throw"}

(* C17: a getKey call with disableHooks = true runs no hook, and it ends as
   the same call with hooks enabled ends, whatever the registered handlers
   do: same {ready, expired}, and it throws only if that call throws. *)
C17_DisabledHooksSameResult ==
  [][(last'.op = "getKey" /\ last'.options.disableHooks)
     => /\ last'.hook = "none"
        /\ last'.ran = <<>>
        /\ \A handler \in Handlers :
             \E rnd \in Random :
               LET enabled == getKey(fs, hooks, file, now,
                                     [last'.options EXCEPT !.disableHooks = FALSE],
                                     [handler |-> handler, rnd |-> rnd])
               IN  /\ enabled.threw = last'.threw
                   /\ enabled.ready = last'.ready
                   /\ enabled.expired = last'.expired
    ]_vars

(* C18: a getKey call in which a handler ran ends as it ends with a handler
   that returns: it does not throw, it returns the same {ready, expired},
   and the files hold what the rotation saved. *)
C18_HookFailureContained ==
  [][(last'.op = "getKey" /\ last'.ran # <<>>)
     => \E rnd \in Random :
          LET quiet == getKey(fs, hooks, file, now, last'.options,
                              [handler |-> "ok", rnd |-> rnd])
          IN  /\ ~quiet.threw => ~last'.threw
              /\ last'.ready = quiet.ready
              /\ last'.expired = quiet.expired
              /\ fs' = quiet.fs
    ]_vars

(* the file stores a custom function is tried against *)
OtherStores == {fs, PartStore, LegacyStore, DamagedStore}

(* C19: once useGetKey(fn) is called, a getKey call classifies what
   fn(path, version) answers, with null taken as not found, and ends the
   same way whatever the file store holds; once useSaveKey(fn) is called,
   newKey and a rotation save through fn(filename, record, merge) alone: the
   files stay as they are, the call does not fail for a missing file, and
   the path it returns is what fn returned. *)
C19_CustomStoreReplaces ==
  [][/\ (last'.op = "getKey" /\ getKeyFn.set)
        => LET answer == CallGetKeyFn(getKeyFn, last'.options.path,
                                      String(last'.options.version))
           IN  /\ last'.expired \in {Null, answer}
               /\ last'.saved = <<>> => last'.ready \in {Null, answer}
               /\ answer = Null
                    => /\ last'.ready = Null
                       /\ last'.expired = Null
                       /\ last'.saved = <<>>
                       /\ ~last'.options.disableHooks
                            => last'.hook = "onKeyNotFound"
               /\ (~last'.threw /\ answer # Null)
                    => last'.ready # Null \/ last'.expired # Null
               /\ (last'.options.onRotate = Null \/ saveKeyFn.set)
                    => \A files \in OtherStores, handler \in Handlers :
                         \E rnd \in Random :
                           LET other == getKey(files, hooks, file, now,
                                               last'.options,
                                               [handler |-> handler, rnd |-> rnd])
                           IN  handler = (IF last'.threw THEN "throw" ELSE "ok")
                                 => /\ other.threw = last'.threw
                                    /\ other.ready = last'.ready
                                    /\ other.expired = last'.expired
                                    /\ other.fs = files
     /\ (last'.op = "newKey" /\ saveKeyFn.set)
        => /\ ~last'.threw
           /\ fs' = fs
           /\ last'.path
                = CallSaveKeyFn(saveKeyFn,
                                getFilename(file, last'.key.type, last'.key.version),
                                last'.key, Truthy(last'.options.merge))
     /\ (last'.op = "getKey" /\ saveKeyFn.set /\ last'.saved # <<>>)
        => /\ fs' = fs
           /\ last'.saved[1].path
                = CallSaveKeyFn(saveKeyFn,
                                getFilename(file, last'.saved[1].key.type,
                                            last'.saved[1].key.version),
                                last'.saved[1].key, last'.saved[1].merge)
    ]_vars

(* with both custom functions set and no key file in the folder, a getKey
   call rotated the record that the load function answered and saved the new
   record through the save function *)
C19_Witness ==
  /\ last.op = "getKey"
  /\ getKeyFn.set
  /\ saveKeyFn.set
  /\ ~last.threw
  /\ last.expired # Null
  /\ last.expired
       = CallGetKeyFn(getKeyFn, last.options.path, String(last.options.version))
  /\ last.ready # Null
  /\ last.saved # <<>>
  /\ last.saved[1].path[1] = saveKeyFn.name
  /\ fs = NoStore

(* C20: when two getKey calls with a rotation spec on the same expired
   record with rotate = true have both found the record expired and have
   both ended, neither has thrown, each has saved a record of its own and
   has returned {expired: the old record, ready: its own new record}, and
   the file holds what the later of the two writes put there. *)
C20_RaceBothRotate ==
  (\A c \in Callers : calls[c].pc = "done" /\ calls[c].rotated)
    => /\ \A c \in Callers :
            /\ ~calls[c].threw
            /\ calls[c].expired = OldKey
            /\ calls[c].ready = calls[c].new
            /\ calls[c].nth > 0
       /\ \A c \in Callers :
            calls[c].nth = Cardinality(Callers) => fs[RacePath] = calls[c].text

(* C21: the record that newKey returns and saves has the version that the
   generator gave, as a string: its `version` is not a number. *)
C21_VersionIsString ==
  [][(last'.op = "newKey" /\ ~last'.threw)
     => /\ last'.key.version.ty = "string"
        /\ StoredAt(fs', last'.path, last'.key.version) = last'.key
    ]_vars

(* C22: the record newKey builds has `from` at the time of the call; its
   `to` is from + duration in the unit when a duration other than 0 and a
   unit are given, and 'NON_EXPIRED' otherwise; its `rotate` is true exactly
   when rotate: true was asked for.  Times are doubled, so that half a
   second is a whole number. *)
C22_Lifetime ==
  [][(last'.op = "newKey" /\ ~last'.threw)
     => LET duration == last'.options.duration
            unit == last'.options.unit
            given == /\ duration.ty = "number"
                     /\ duration.v # 0 \/ IsHalf(duration)
                     /\ unit.ty = "string"
            twice == 2 * duration.v + (IF IsHalf(duration) THEN 1 ELSE 0)
        IN  /\ last'.key.from = toISOString(now)
            /\ given => /\ last'.key.to.date
                        /\ 2 * last'.key.to.v
                             = 2 * now + twice * UnitSeconds(unit.v)
            /\ ~given => last'.key.to = NON_EXPIRED
            /\ last'.key.rotate = Bool(last'.options.rotate = Bool(TRUE))
    ]_vars

(* C23: a create call whose second argument is true returns the shared
   module, the same one at every such call and unchanged by the options of
   a later call; a create call whose second argument is false or omitted
   returns a module that was not there before, with the options given over
   the defaults, and leaves the other modules as they were. *)
C23_Singleton ==
  [][last'.op = "create"
     => IF last'.only
        THEN /\ instance' = last'.ref
             /\ instance # 0 => (last'.ref = instance /\ heap' = heap)
        ELSE /\ last'.ref = Len(heap) + 1
             /\ Len(heap') = Len(heap) + 1
             /\ heap'[last'.ref].options
                  = Spread(DEFAULT_MODULE_OPTIONS, last'.options)
             /\ \A j \in 1..Len(heap) : heap'[j] = heap[j]
    ]_vars

(* C24: the module that clone(extend) returns is a new one; it has the save
   function, the load function, the store path, the logger and the hooks of
   the original, and the original's options with those of `extend` over
   them; the original is as it was.  A later setting of one module leaves
   every other module as it was. *)
C24_CloneCarries ==
  [][/\ last'.op = "clone"
        => LET original == heap[last'.of]
               made == heap'[last'.ref]
           IN  /\ last'.ref \notin 1..Len(heap)
               /\ made.saveKeyFn = original.saveKeyFn
               /\ made.getKeyFn = original.getKeyFn
               /\ made.storePath = original.storePath
               /\ made.logger = original.logger
               /\ made.hooks = original.hooks
               /\ made.options = Spread(original.options, last'.extend)
               /\ \A j \in 1..Len(heap) : heap'[j] = heap[j]
     /\ last'.op = "set"
        => /\ Len(heap') = Len(heap)
           /\ \A j \in 1..Len(heap) \ {last'.ref} : heap'[j] = heap[j]
    ]_vars

(* a clone, with other options, of a module that has every setting *)
C24_Witness ==
  /\ last.op = "clone"
  /\ last.extend = [path |-> "custom"]
  /\ heap[last.of].saveKeyFn.set
  /\ heap[last.of].getKeyFn.set
  /\ heap[last.of].storePath = "vault"
  /\ heap[last.of].logger = "logger"
  /\ heap[last.ref].hooks = [onKeyNotFound |-> "handler"]
  /\ heap[last.ref].options.path = "custom"

(* C25: decrypt, given the envelope that encrypt made and the same secret,
   returns the plaintext that was encrypted, for every key derivation and
   every override of the lengths. *)
C25_RoundTrip ==
  [][(last'.op = "decrypt" /\ last'.encryptedData = last'.envelope)
     => last'.outcome = Returned(last'.plainText)
    ]_vars

(* C26: decrypt, given an envelope that was cut short or that has another
   value in a length field, does not throw and returns the empty text, the
   result of a decryption that failed. *)
C26_FailClosed ==
  [][(last'.op = "decrypt" /\ last'.encryptedData # last'.envelope)
     => last'.outcome = Returned(<<>>)
    ]_vars

(* C29: no encrypt runs under a service whose key length is not the one of
   its algorithm: 32 bytes for AES-256, 16 bytes for AES-128. *)
C29_KeyLengthOfAlgorithm ==
  [][last'.op = "encrypt"
     => /\ last'.options.algorithm = "aes-256-cbc"
             => last'.options.keyLength = 32
        /\ last'.options.algorithm = "aes-128-cbc"
             => last'.options.keyLength = 16
    ]_vars

(* C30: the envelope of encrypt begins with three fields of two bytes each,
   which read as the key length that was used, the number of bytes of the
   salt (0 for kdf 'none') and the number of bytes of the IV; what decrypt
   parses from the envelope as salt, IV and ciphertext is what encrypt put
   there. *)
C30_Framing ==
  [][last'.op = "encrypt"
     => LET out == last'.out
            parsed == decrypt(last'.options, out.envelope, last'.secret)
        IN  /\ Len(out.envelope) >= 12
            /\ parseInt16(SubSeq(out.envelope, 1, 4)) = out.keyLength
            /\ parseInt16(SubSeq(out.envelope, 5, 8)) = Len(out.salt)
            /\ parseInt16(SubSeq(out.envelope, 9, 12)) = Len(out.iv)
            /\ last'.options.kdf = "none" => out.salt = <<>>
            /\ parsed.salt = out.salt
            /\ parsed.iv = out.iv
            /\ parsed.ciphertext = out.ciphertext
    ]_vars

(* C27: verifyHash is true for the record that hash made, the same data and
   the same secret, whether the salt was given or drawn; it is false for
   that record with other data or another secret, and for that record with
   another character in its digest. *)
C27_HashVerifies ==
  [][last'.op = "verifyHash"
     => LET same == /\ last'.data = last'.of.data
                    /\ last'.secret = last'.of.secret
            made == last'.of.hashed.v
            given == last'.hashedData.v
        IN  /\ (last'.hashedData = last'.of.hashed /\ same) => last'.result
            /\ (last'.hashedData = last'.of.hashed /\ ~same) => ~last'.result
            /\ (/\ Len(given) = 2
                /\ given[1] = made[1]
                /\ given[2] # <<>>
                /\ given[2] # made[2]) => ~last'.result
    ]_vars

(* C28: verifyHash takes what is before the first ':' of the record as the
   salt and all that is after it as the digest: it is true exactly when
   both are there and the digest of the data, the secret and that salt is
   the whole of what follows the first ':'.  So a record without ':' or
   with an empty half, and a record with more text behind a further ':',
   give false. *)
C28_SplitOnFirstColon ==
  [][last'.op = "verifyHash"
     => LET parts == last'.hashedData.v
        IN  last'.result
              = /\ Len(parts) = 2
                /\ parts[1] # 0
                /\ parts[2] # <<>>
                /\ Digest(last'.data, last'.secret, decode(parts[1]))
                     = parts[2]
    ]_vars

(* C31: under a GCM algorithm the envelope of encrypt holds, between the IV
   and the ciphertext, a tag of tagLength bytes, and decrypt of that
   envelope with a digit of its ciphertext or of a field changed, or cut
   short, gives the result of a failed decryption, the empty text, and no
   other text. *)
C31_AeadTag ==
  [][(/\ last'.op \in {"encrypt", "decrypt"}
      /\ last'.options.algorithm = "aes-256-gcm")
     => /\ last'.op = "encrypt"
             => Len(last'.out.envelope)
                  = 12 + 2 * (Len(last'.out.salt) + Len(last'.out.iv)
                              + last'.options.tagLength
                              + Len(last'.out.ciphertext))
        /\ (last'.op = "decrypt" /\ last'.encryptedData # last'.envelope)
             => last'.outcome = Returned(<<>>)
    ]_vars

(* the fields of a record in the order in which they are checked, and the
   primitive type that each has to have *)
FieldOrder ==
  <<"from", "to", "key", "hashed", "rotate", "type", "version",
    "hashedBytes", "secret">>

Typed(k, f) ==
  CASE f \in {"from", "to", "key", "hashed", "type"} -> k[f].ty = "string"
    [] f = "rotate" -> k[f].ty = "boolean"
    [] f = "version" -> k[f].ty \in {"string", "number"}
    [] f = "hashedBytes" -> k[f].ty = "number"
    [] f = "secret" -> k[f].ty \in {"string", "undefined"}

(* C32: validateKey checks in this order and stops at the first check that
   fails: the primitive types of the fields (the verdict names the first
   field that has a wrong one), `from` is a date and not after the time of
   the call (else the record is invalid or not started, and never expired),
   `to` is the sentinel or a date (else invalid) that is not before the time
   of the call (else expired), hashedBytes is not negative (else invalid);
   a record that passes them all is valid. *)
C32_ChecksInOrder ==
  [][last'.op = "validateKey"
     => LET k == last'.keyGenerated
            t == last'.at
            v == last'.verdict
            bad == {i \in 1..Len(FieldOrder) : ~Typed(k, FieldOrder[i])}
        IN  IF bad # {}
              THEN /\ ~v.ok /\ ~v.isExpired
                   /\ \E i \in bad : /\ v.errorOn = FieldOrder[i]
                                     /\ \A j \in bad : i <= j
            ELSE IF ~k.from.date
              THEN ~v.ok /\ ~v.isExpired /\ v.errorOn = "from"
            ELSE IF k.from.v > t
              THEN /\ ~v.ok /\ ~v.isExpired
                   /\ v.message = <<"", "Key is not started!">>
            ELSE IF ~k.to.date /\ k.to # NON_EXPIRED
              THEN ~v.ok /\ ~v.isExpired /\ v.errorOn = "to"
            ELSE IF k.to.date /\ k.to.v < t
              THEN ~v.ok /\ v.isExpired
            ELSE IF k.hashedBytes.v < 0
              THEN ~v.ok /\ ~v.isExpired /\ v.errorOn = "hashedBytes"
            ELSE v.ok
    ]_vars

(* a record whose `from` is after the time of the call and whose `to` is
   before it was found not started and not expired; so was one with a wrong
   type and a past `to`, or with a past `to` and negative hashedBytes *)
C32_Witness ==
  /\ last.op = "validateKey"
  /\ Typed(last.keyGenerated, "from") /\ Typed(last.keyGenerated, "to")
  /\ last.keyGenerated.from.date /\ last.keyGenerated.to.date
  /\ last.keyGenerated.from.v > last.at
  /\ last.keyGenerated.to.v < last.at
  /\ last.keyGenerated.hashedBytes = Num(-1)
  /\ last.keyGenerated.rotate.ty = "boolean"
  /\ ~last.verdict.ok
  /\ ~last.verdict.isExpired
  /\ last.verdict.message = <<"", "Key is not started!">>

(* C33 as stated: a record whose fields have their types and whose dates
   parse is found expired exactly when its `to` is a date before the time of
   the call, and an expired one is renewable exactly when its `rotate` is
   true. *)
C33_ExpiredExactly ==
  [][(last'.op = "validateKey" /\ WellTyped(last'.keyGenerated))
     => /\ last'.verdict.isExpired
             = Expired(last'.keyGenerated, last'.at)
        /\ last'.verdict.isExpired
             => last'.verdict.isRenewable = last'.keyGenerated.rotate.v
    ]_vars

(* C33, amended: a record whose fields have their types, whose dates parse
   and whose `from` is not after the time of the call is found expired
   exactly when its `to` is a date before the time of the call (the sentinel
   never is); an expired one is not ok and is renewable exactly when its
   `rotate` is true.  A record whose `from` is after the time of the call
   is never found expired. *)
C33_StartedExpiredExactly ==
  [][(last'.op = "validateKey" /\ WellTyped(last'.keyGenerated))
     => /\ ~NotStarted(last'.keyGenerated, last'.at)
             => last'.verdict.isExpired
                  = Expired(last'.keyGenerated, last'.at)
        /\ NotStarted(last'.keyGenerated, last'.at)
             => ~last'.verdict.isExpired
        /\ last'.keyGenerated.to = NON_EXPIRED => ~last'.verdict.isExpired
        /\ last'.verdict.isExpired
             => /\ ~last'.verdict.ok
                /\ last'.verdict.isRenewable = last'.keyGenerated.rotate.v
    ]_vars

(* a record whose `to` is one second before the time of the call and whose
   `rotate` is true was found expired and renewable *)
C33_Witness ==
  /\ last.op = "validateKey"
  /\ WellTyped(last.keyGenerated)
  /\ last.keyGenerated.to = toISOString(last.at - 1)
  /\ last.keyGenerated.rotate = Bool(TRUE)
  /\ last.verdict.isExpired
  /\ last.verdict.isRenewable

(* C34: a getKey call with hooks enabled calls at most one key hook, the one
   of its outcome: onKeyNotFound when the store holds no record under the
   path and version, onKeyInvalid when the record has not started or is
   malformed, onKeyExpired when it has expired and its rotate is false,
   onKeyMissingRotateOption when it has expired, its rotate is true and no
   onRotate is given, onKeyRenewed when it was rotated, the new record then
   being in the store, and none when the record is valid. *)
C34_OneHookOfOutcome ==
  [][(last'.op = "getKey" /\ ~last'.options.disableHooks)
     => /\ Len(last'.ran) <= 1
        /\ \A i \in 1..Len(last'.ran) : last'.ran[i] = last'.hook
        /\ last'.hook
             = IF Asked = Null THEN "onKeyNotFound"
               ELSE IF ~WellTyped(Asked) \/ NotStarted(Asked, now)
                 THEN "onKeyInvalid"
               ELSE IF Expired(Asked, now)
                 THEN IF ~Asked.rotate.v THEN "onKeyExpired"
                      ELSE IF last'.options.onRotate = Null
                        THEN "onKeyMissingRotateOption"
                      ELSE "onKeyRenewed"
               ELSE IF Asked.hashedBytes.v < 0 THEN "onKeyInvalid"
               ELSE "none"
        /\ last'.hook = "onKeyRenewed"
             => /\ Len(last'.saved) = 1
                /\ StoredAt(fs', last'.saved[1].path, last'.saved[1].key.version)
                     = last'.saved[1].key
    ]_vars

(* C35: a verifyKey call leaves every file as it was, whatever the record
   it looks up is: valid, expired with rotate false or true, malformed or
   absent; it generates no key. *)
C35_VerifyKeyKeepsStore ==
  [][last'.op = "verifyKey" => fs' = fs]_vars

(* verifyKey was called for a stored record that has expired and whose
   rotate is true, and returned true for its hashed text *)
C35_Witness ==
  /\ last.op = "verifyKey"
  /\ ~last.threw
  /\ Held # Null
  /\ WellTyped(Held)
  /\ Expired(Held, now)
  /\ Held.rotate.v
  /\ last.expired = Held
  /\ last.ready = Null
  /\ last.value

(* C36: when two newKey calls with merge = true that save to the same file
   have run at the same time and both have written, the file holds the
   record of each of them under its version (when the two versions differ)
   and still holds every version it held before. *)
C36_MergeKeepsBoth ==
  (\A c \in Callers :
     /\ calls[c].pc = "done"
     /\ calls[c].rotated
     /\ calls[c].nth > 0
     /\ Truthy(calls[c].options.onRotate.merge))
  => /\ fs[RacePath].kind = "map"
     /\ String(OldKey.version).v \in DOMAIN fs[RacePath].data
     /\ calls[1].new.version # calls[2].new.version
          => \A c \in Callers :
               StoredAt(fs, RacePath, calls[c].new.version) = calls[c].new

(* C37: registering a handler under a name that has one calls the
   onHookOverriding handler that is registered at that moment, if there is
   one, with the name, and then the name has the new handler; a name that
   had none is set without a call; the other names keep their handlers.
   Running a hook under a name that has no handler calls the onHookNotFound
   handler, if there is one, with the name, calls nothing else and returns
   undefined. *)
C37_Registry ==
  [][/\ last'.op = "setHooks"
          => LET entries == last'.entries
                 before == last'.before
                 atEntry(i) == IF i = 1 THEN before
                               ELSE Spread(before, [n \in {entries[1][1]} |->
                                                      entries[1][2]])
                 overridden == {i \in 1..Len(entries) :
                                  /\ entries[i][1] \in DOMAIN atEntry(i)
                                  /\ "onHookOverriding" \in DOMAIN atEntry(i)}
             IN  /\ ~last'.threw
                 /\ \A i \in 1..Len(entries) :
                      /\ entries[i][1] \in DOMAIN heap'[1].hooks
                      /\ heap'[1].hooks[entries[i][1]] = entries[i][2]
                 /\ \A n \in DOMAIN before :
                      (\A i \in 1..Len(entries) : entries[i][1] # n)
                        => /\ n \in DOMAIN heap'[1].hooks
                           /\ heap'[1].hooks[n] = before[n]
                 /\ Len(last'.called) = Cardinality(overridden)
                 /\ \A i \in overridden :
                      \E j \in 1..Len(last'.called) :
                        last'.called[j]
                          = <<atEntry(i)["onHookOverriding"], entries[i][1]>>
     /\ (last'.op = "runHook" /\ last'.name \notin DOMAIN heap[1].hooks)
          => /\ ~last'.threw
             /\ last'.value = "undefined"
             /\ last'.called
                  = IF "onHookNotFound" \in DOMAIN heap[1].hooks
                      THEN << <<heap[1].hooks["onHookNotFound"], last'.name>> >>
                      ELSE <<>>
    ]_vars

(* C38: a validateKey call leaves the record it is given, the files and the
   registered hooks as they were, and two calls in a row with the same
   record at the same time give the same verdict. *)
C38_ValidationIsPure ==
  [][last'.op = "validateKey"
     => /\ last'.after = last'.keyGenerated
        /\ fs' = fs
        /\ hooks' = hooks
        /\ (/\ last.op = "validateKey"
            /\ last.keyGenerated = last'.keyGenerated
            /\ last.at = last'.at)
             => last'.verdict = last.verdict
    ]_vars

(* a record that has expired was validated while hooks were registered *)
C38_Witness ==
  /\ last.op = "validateKey"
  /\ hooks # {}
  /\ last.verdict.isExpired
  /\ last.after = last.keyGenerated

=============================================================================
